---- MODULE Spec2Model ----
(***************************************************************************)
(* Model of the ball-on-a-plane physics engine (src/src/ball_physics.py,   *)
(* src/src/simulation.py): Ball, Surface, BallDynamics, Simulation and     *)
(* MultiballSimulation.                                                    *)
(*                                                                         *)
(* Numbers.  The program computes in floating point; the model computes in *)
(* fixed point.  Every quantity is an integer number of quanta and each    *)
(* quotient is rounded to the nearest quantum (RDiv), as a floating point  *)
(* operation rounds to the nearest representable value.                    *)
(*   - time in ticks; lengths in length quanta; velocities in length       *)
(*     quanta per tick; angular velocities in radians per tick scaled so   *)
(*     that v = omega * r holds without a factor;                          *)
(*   - surface.angle in micro-radians, so that the program's 1e-6 rad test *)
(*     is a test against 1;                                                *)
(*   - sines and cosines in units of 1/TrigScale, friction coefficients    *)
(*     and restitutions in units of 1/MuDen and 1/EDen;                    *)
(*   - forces in units of 1/ForceScale, so that N, f_max and f_required    *)
(*     are exact integers;                                                 *)
(*   - energies and angular momenta are stored ten times their value,      *)
(*     which keeps the factor 0.4 of the moment of inertia exact.          *)
(* The speed thresholds of the program are expressed at the model's scale: *)
(* the 1e-6 rest threshold is RestEps quanta, and the 1e-8 and 1e-10       *)
(* guards lie below one quantum.                                           *)
(***************************************************************************)
EXTENDS Integers, Sequences, FiniteSets, TLC

VARIABLES
    \* ---- Simulation (single ball integrator) ----
    ball,                 \* Simulation.ball / BallDynamics.ball
    surface,              \* Simulation.surface / BallDynamics.surface
    dt,                   \* Simulation.dt
    total_time,           \* Simulation.total_time
    is_slipping,          \* BallDynamics.is_slipping (the cached regime flag)
    time_points,          \* Simulation.time_points
    positions,            \* Simulation.positions
    velocities,           \* Simulation.velocities
    angular_velocities,   \* Simulation.angular_velocities
    energies,             \* Simulation.energies
    angular_momenta,      \* Simulation.angular_momenta
    is_slipping_history,  \* Simulation.is_slipping_history
    current_time,         \* local of run()
    walls,                \* argument of run(): a sequence of [position, axis]
    restitution,          \* argument of run()
    state,                \* where the integrator is: CONSTRUCTED, RUNNING, STOPPED_AT_*
    results,              \* what the last get_results() returned, as the caller holds it
    \* ---- MultiballSimulation ----
    balls,                \* MultiballSimulation.balls
    ball_positions,       \* MultiballSimulation.ball_positions
    ball_velocities,      \* MultiballSimulation.ball_velocities
    \* ---- direct calls of the evaluator's methods ----
    call,                 \* the pending call and its arguments
    ret,                  \* the value the last call returned
    \* ---- several integrators side by side ----
    instances,            \* the integrators, their arrays, lists and flags by owner
    \* ---- observation ----
    kind,                 \* which object was constructed
    obs                   \* what the last step did (counters and flags read by the properties)

vars == <<ball, surface, dt, total_time, is_slipping, time_points, positions,
          velocities, angular_velocities, energies, angular_momenta,
          is_slipping_history, current_time, walls, restitution, state, results,
          balls, ball_positions, ball_velocities, call, ret, kind, obs,
          instances>>

-----------------------------------------------------------------------------
(* Scales and program constants at the model's scale.                      *)

\* g = 9.81 m/s^2 (default of Simulation.__init__), in velocity quanta per tick
G == 140
\* denominator of sines and cosines
TrigScale == 100
\* denominator of friction coefficients
MuDen == 10
\* denominator of restitution coefficients
EDen == 10
\* denominator of unit vectors
DirScale == 100
\* the 1e-6 rad threshold of the surface angle, in micro-radians
AngleEps == 1
\* the 1e-6 speed / angular speed threshold of the rest check, in quanta
RestEps == 3
\* the 1e-8 speed guard of the flat branch: below one quantum
FlatVEps == 0
\* the 1e-10 speed guard of the slipping branch: below one quantum
SlipVEps == 0
\* the 1e-10 radius guard: below one quantum
RadiusEps == 0

\* forces are carried in units of 1/ForceScale
ForceScale == 7 * TrigScale * MuDen

\* not-a-number, the result of 0.0 / 0.0 on arrays: a value no computation of
\* the model produces otherwise
NaN == -999999999

-----------------------------------------------------------------------------
(* Arithmetic.                                                             *)

Abs(x) == IF x < 0 THEN -x ELSE x

\* n / d rounded to the nearest integer (halves away from zero), d > 0
RDivPos(n, d) ==
    IF n >= 0 THEN (2 * n + d) \div (2 * d)
              ELSE -((2 * (-n) + d) \div (2 * d))

\* a / b rounded to the nearest integer, b # 0
RDiv(a, b) == IF b < 0 THEN RDivPos(-a, -b) ELSE RDivPos(a, b)

RECURSIVE SqrtIter(_, _, _)
SqrtIter(n, lo, hi) ==
    IF lo >= hi THEN lo
    ELSE IF ((lo + hi + 1) \div 2) * ((lo + hi + 1) \div 2) <= n
         THEN SqrtIter(n, (lo + hi + 1) \div 2, hi)
         ELSE SqrtIter(n, lo, ((lo + hi + 1) \div 2) - 1)

NearestRoot(n, s) == IF n - s * s > s THEN s + 1 ELSE s

\* sqrt(n) rounded to the nearest integer, 0 <= n < 2^31
ISqrt(n) == NearestRoot(n, SqrtIter(n, 0, 46340))

Dot2(a, b) == a[1] * b[1] + a[2] * b[2]
SumSq2(v) == v[1] * v[1] + v[2] * v[2]
SumSq3(w) == w[1] * w[1] + w[2] * w[2] + w[3] * w[3]

\* np.linalg.norm(v) < eps for a 2-vector / 3-vector of quanta
NormBelow2(v, eps) == eps > 0 /\ SumSq2(v) < eps * eps
NormBelow3(w, eps) == eps > 0 /\ SumSq3(w) < eps * eps

\* ten times |v|, rounded
Norm10(v) == ISqrt(100 * SumSq2(v))

\* v / (n / 10) in units of 1/DirScale
Scaled(v, n) == <<RDiv(v[1] * 10 * DirScale, n), RDiv(v[2] * 10 * DirScale, n)>>

\* v / |v| in units of 1/DirScale, for v # 0
UnitVec(v) == Scaled(v, Norm10(v))

\* np.sin / np.cos of an angle in micro-radians, in units of 1/TrigScale
Sin(a) ==
    CASE a = 20000 -> 2
      [] a = 523560 -> 50
      [] a = 1047120 -> 87
      [] a = -523560 -> -50
      [] OTHER -> 0
Cos(a) ==
    CASE a = 20000 -> 100
      [] a = 523560 -> 87
      [] a = 1047120 -> 50
      [] a = -523560 -> 87
      [] OTHER -> 100

\* np.radians: degrees (given in units of 1e-5 degree) to micro-radians
Radians(deg5) == RDiv(deg5 * 100, 573)

-----------------------------------------------------------------------------
(* Entity model.                                                           *)

\* Ball.__init__: stores what it is given, checks nothing
Ball(mass, radius, position, velocity, angular_velocity) ==
    [mass |-> mass, radius |-> radius, position |-> position,
     velocity |-> velocity, angular_velocity |-> angular_velocity]

\* Surface.__init__: stores the coefficient and the angle in radians, checks nothing
Surface(friction_coeff, angle_deg5) ==
    [friction_coeff |-> friction_coeff, angle |-> Radians(angle_deg5)]

\* ten times Ball.moment_of_inertia = 0.4 * mass * radius^2
MomentOfInertia10(b) == 4 * b.mass * b.radius * b.radius

\* ten times Ball.kinetic_energy()
KineticEnergy10(b) ==
    5 * b.mass * SumSq2(b.velocity)
    + 2 * b.mass * b.radius * b.radius * SumSq3(b.angular_velocity)

\* ten times Ball.angular_momentum()
AngularMomentum10(b) ==
    <<MomentOfInertia10(b) * b.angular_velocity[1],
      MomentOfInertia10(b) * b.angular_velocity[2],
      MomentOfInertia10(b) * b.angular_velocity[3]>>

\* Ball.linear_momentum()
LinearMomentum(b) == <<b.mass * b.velocity[1], b.mass * b.velocity[2]>>

-----------------------------------------------------------------------------
(* BallDynamics.                                                           *)

\* BallDynamics.normal_force(), in force units
NormalForce(b, s) == b.mass * G * Cos(s.angle) * 7 * MuDen

\* f_max = friction_coeff * N, in force units
MaxFriction(b, s) == (s.friction_coeff * NormalForce(b, s)) \div MuDen

\* f_required = (2/7) * mass * g * sin(theta), in force units
RequiredFriction(b, s) == 2 * b.mass * G * Sin(s.angle) * MuDen

\* the branch test of equations_of_motion: the surface counts as an incline
OnIncline(s) == Abs(s.angle) > AngleEps

\* the sliding-block condition tan(theta) > mu, without the factor 2/7
SlipsLikeBlock(b, s) == 7 * b.mass * G * Sin(s.angle) * MuDen > MaxFriction(b, s)

\* the rolling-or-slipping decision of equations_of_motion on an incline
SlipsOnIncline(b, s) == RequiredFriction(b, s) > MaxFriction(b, s)

\* the derivative vector and the regime flag equations_of_motion leaves behind
Derivative(v, acceleration, angular_acceleration, slip) ==
    [d |-> <<v[1], v[2], acceleration[1], acceleration[2],
             angular_acceleration[1], angular_acceleration[2],
             angular_acceleration[3]>>,
     is_slipping |-> slip]

\* an angular acceleration about y with the sign of the acceleration along x
NoSlipAngularSameSign(b, a) ==
    IF b.radius > RadiusEps
    THEN <<RDiv(a[2], b.radius), RDiv(a[1], b.radius), 0>>
    ELSE <<0, 0, 0>>

\* the angular acceleration that keeps the contact point at rest, or zeros for
\* a degenerate radius
NoSlipAngular(b, a) ==
    IF b.radius > RadiusEps
    THEN <<RDiv(a[2], b.radius), RDiv(-a[1], b.radius), 0>>
    ELSE <<0, 0, 0>>

\* F_friction of the slipping branch: against the velocity, or against
\* incline_direction when the ball does not move
SlippingFriction(b, s, v) ==
    IF SumSq2(v) > SlipVEps * SlipVEps
    THEN <<RDiv(MaxFriction(b, s) * UnitVec(<<-v[1], -v[2]>>)[1], DirScale),
           RDiv(MaxFriction(b, s) * UnitVec(<<-v[1], -v[2]>>)[2], DirScale)>>
    ELSE <<RDiv(-MaxFriction(b, s) * Cos(s.angle), TrigScale),
           RDiv(MaxFriction(b, s) * Sin(s.angle), TrigScale)>>

\* (F_gravity + F_normal + F_friction) / mass
SlippingAcceleration(b, s, F_friction) ==
    IF b.mass = 0 THEN <<NaN, NaN>>
    ELSE <<RDiv(0 + RDiv(-NormalForce(b, s) * Sin(s.angle), TrigScale) + F_friction[1],
                b.mass * ForceScale),
           RDiv(-b.mass * G * ForceScale
                + RDiv(NormalForce(b, s) * Cos(s.angle), TrigScale) + F_friction[2],
                b.mass * ForceScale)>>

\* np.cross(r_contact, F_friction_3d) / moment_of_inertia, r_contact = (0, 0, -radius)
SlippingAngular(b, F_friction) ==
    IF MomentOfInertia10(b) = 0 THEN <<NaN, NaN, NaN>>
    ELSE <<RDiv(10 * b.radius * F_friction[2], MomentOfInertia10(b) * ForceScale),
           RDiv(-10 * b.radius * F_friction[1], MomentOfInertia10(b) * ForceScale),
           0>>

SlippingDerivative(b, s, v, F_friction) ==
    Derivative(v, SlippingAcceleration(b, s, F_friction),
               SlippingAngular(b, F_friction), TRUE)

\* a_magnitude * incline_direction, a_magnitude = (5/7) g sin(theta),
\* incline_direction = (cos(theta), -sin(theta))
RollingAcceleration(s) ==
    <<RDiv(5 * G * Sin(s.angle) * Cos(s.angle), 7 * TrigScale * TrigScale),
      RDiv(-5 * G * Sin(s.angle) * Sin(s.angle), 7 * TrigScale * TrigScale)>>

\* the rolling resistance of the flat branch: a_max = (2/7) mu g against v_direction
FlatAcceleration(s, v_direction) ==
    <<RDiv(-2 * s.friction_coeff * G * v_direction[1], 7 * MuDen * DirScale),
      RDiv(-2 * s.friction_coeff * G * v_direction[2], 7 * MuDen * DirScale)>>

\* a rolling branch whose flag says whether the ball moves
RollingDerivativeFlagBySpeed(b, v, acceleration) ==
    Derivative(v, acceleration, NoSlipAngular(b, acceleration), SumSq2(v) > 0)

RollingDerivative(b, v, acceleration) ==
    Derivative(v, acceleration, NoSlipAngular(b, acceleration), FALSE)

\* equations_of_motion with the velocity taken out of the state vector
DerivativeAt(b, s, v) ==
    IF OnIncline(s)
    THEN IF SlipsOnIncline(b, s)
         THEN SlippingDerivative(b, s, v, SlippingFriction(b, s, v))
         ELSE RollingDerivative(b, v, RollingAcceleration(s))
    ELSE IF SumSq2(v) > FlatVEps * FlatVEps
         THEN RollingDerivative(b, v, FlatAcceleration(s, UnitVec(v)))
         ELSE Derivative(v, <<0, 0>>, <<0, 0, 0>>, FALSE)

\* BallDynamics.equations_of_motion(state, t): the derivative of the state
\* vector <<x, y, vx, vy, wx, wy, wz>> and the regime flag it leaves behind
equations_of_motion(b, s, st) == DerivativeAt(b, s, <<st[3], st[4]>>)

\* Simulation.get_state_vector()
StateVector(b) ==
    <<b.position[1], b.position[2], b.velocity[1], b.velocity[2],
      b.angular_velocity[1], b.angular_velocity[2], b.angular_velocity[3]>>

\* Simulation.set_state_from_vector(state)
SetStateFromVector(b, st) ==
    [b EXCEPT !.position = <<st[1], st[2]>>,
              !.velocity = <<st[3], st[4]>>,
              !.angular_velocity = <<st[5], st[6], st[7]>>]

\* the rolling resistance brings the ball to a stop within a step of length h
StopsWithin(s, st, d, h) ==
    /\ ~OnIncline(s)
    /\ h > 0
    /\ d[3] * st[3] + d[4] * st[4] < 0
    /\ SumSq2(<<d[3] * h, d[4] * h>>) >= SumSq2(<<st[3], st[4]>>)

\* the state when the ball has stopped: it travelled |v| / (2 a_max) along v
\* and lost the spin that goes with v
StoppedState(b, s, st, n) ==
    <<st[1] + RDiv(st[3] * n * 7 * MuDen, 40 * s.friction_coeff * G),
      st[2] + RDiv(st[4] * n * 7 * MuDen, 40 * s.friction_coeff * G),
      0, 0,
      st[5] + NoSlipAngular(b, <<-st[3], -st[4]>>)[1],
      st[6] + NoSlipAngular(b, <<-st[3], -st[4]>>)[2],
      st[7]>>

\* the state after a step of length h under the constant derivative d
AdvancedState(st, d, h) ==
    <<st[1] + st[3] * h + RDiv(d[3] * h * h, 2),
      st[2] + st[4] * h + RDiv(d[4] * h * h, 2),
      st[3] + d[3] * h, st[4] + d[4] * h,
      st[5] + d[5] * h, st[6] + d[6] * h, st[7] + d[7] * h>>

OdeintFrom(b, s, st, d, h) ==
    IF h = 0 THEN st
    ELSE IF StopsWithin(s, st, d, h)
         THEN StoppedState(b, s, st, Norm10(<<st[3], st[4]>>))
         ELSE AdvancedState(st, d, h)

\* odeint(equations_of_motion, state, [t, t + h])[-1]: the state one step of
\* length h later.  The accelerations of the model are constant along a step
\* (rolling on an incline) or constant until the ball stops (rolling
\* resistance on a flat surface), and there the step is the exact solution;
\* in the slipping regime the derivative at the start of the step is held
\* over the step.
OdeintStep(b, s, st, h) == OdeintFrom(b, s, st, equations_of_motion(b, s, st).d, h)

\* the regime flag after odeint: every derivative evaluation of a step sets
\* the same flag; a step of length zero returns before or after the first
\* evaluation
FlagAfterOdeint(b, s, st, h, old) ==
    IF h = 0 THEN {old, equations_of_motion(b, s, st).is_slipping}
    ELSE {equations_of_motion(b, s, st).is_slipping}

\* a clamp that scales the velocity component without reversing it
BounceKeepsSign(b, wall_position, k, e) ==
    [b EXCEPT !.velocity[k] = RDiv(e * b.velocity[k], EDen),
              !.position[k] = IF b.position[k] - wall_position > 0
                              THEN wall_position + b.radius
                              ELSE wall_position - b.radius]

\* a reflection that reverses both in-plane velocity components
BounceBothAxes(b, wall_position, k, e) ==
    [b EXCEPT !.velocity = <<RDiv(-e * b.velocity[1], EDen), RDiv(-e * b.velocity[2], EDen)>>,
              !.position[k] = IF b.position[k] - wall_position > 0
                              THEN wall_position + b.radius
                              ELSE wall_position - b.radius]

\* the reflection and the clamp of handle_wall_collision on coordinate k
Bounce(b, wall_position, k, e) ==
    [b EXCEPT !.velocity[k] = RDiv(-e * b.velocity[k], EDen),
              !.position[k] = IF b.position[k] - wall_position > 0
                              THEN wall_position + b.radius
                              ELSE wall_position - b.radius]

\* a penetration test that misses the ball that just touches the wall
handle_wall_collision_strict(b, wall_position, axis, e) ==
    IF axis \in {0, 1} /\ Abs(b.position[axis + 1] - wall_position) < b.radius
    THEN [ball |-> Bounce(b, wall_position, axis + 1, e), hit |-> TRUE]
    ELSE [ball |-> b, hit |-> FALSE]

\* BallDynamics.handle_wall_collision(wall_position, axis, restitution), axis
\* 0 or 1: the ball afterwards and the value returned
handle_wall_collision(b, wall_position, axis, e) ==
    IF axis \in {0, 1} /\ Abs(b.position[axis + 1] - wall_position) <= b.radius
    THEN [ball |-> Bounce(b, wall_position, axis + 1, e), hit |-> TRUE]
    ELSE [ball |-> b, hit |-> FALSE]

\* a resolution that adds the impulse to both balls
ResolvedSameSign(b1, b2, impulse, den, correction) ==
    [ball |-> [b1 EXCEPT
                 !.velocity = <<b1.velocity[1] + RDiv(impulse[1], den * b1.mass),
                                b1.velocity[2] + RDiv(impulse[2], den * b1.mass)>>,
                 !.position = <<b1.position[1] + correction[1],
                                b1.position[2] + correction[2]>>],
     other |-> [b2 EXCEPT
                 !.velocity = <<b2.velocity[1] + RDiv(impulse[1], den * b2.mass),
                                b2.velocity[2] + RDiv(impulse[2], den * b2.mass)>>,
                 !.position = <<b2.position[1] - correction[1],
                                b2.position[2] - correction[2]>>],
     hit |-> TRUE]

\* a resolution that moves each ball by the whole overlap
ResolvedWholeOverlap(b1, b2, impulse, den, correction) ==
    [ball |-> [b1 EXCEPT
                 !.velocity = <<b1.velocity[1] + RDiv(impulse[1], den * b1.mass),
                                b1.velocity[2] + RDiv(impulse[2], den * b1.mass)>>,
                 !.position = <<b1.position[1] + 2 * correction[1],
                                b1.position[2] + 2 * correction[2]>>],
     other |-> [b2 EXCEPT
                 !.velocity = <<b2.velocity[1] - RDiv(impulse[1], den * b2.mass),
                                b2.velocity[2] - RDiv(impulse[2], den * b2.mass)>>,
                 !.position = <<b2.position[1] - 2 * correction[1],
                                b2.position[2] - 2 * correction[2]>>],
     hit |-> TRUE]

\* the velocity and position changes of a resolved collision; impulse is in
\* units of 1 / den
Resolved(b1, b2, impulse, den, correction) ==
    [ball |-> [b1 EXCEPT
                 !.velocity = <<b1.velocity[1] + RDiv(impulse[1], den * b1.mass),
                                b1.velocity[2] + RDiv(impulse[2], den * b1.mass)>>,
                 !.position = <<b1.position[1] + correction[1],
                                b1.position[2] + correction[2]>>],
     other |-> [b2 EXCEPT
                 !.velocity = <<b2.velocity[1] - RDiv(impulse[1], den * b2.mass),
                                b2.velocity[2] - RDiv(impulse[2], den * b2.mass)>>,
                 !.position = <<b2.position[1] - correction[1],
                                b2.position[2] - correction[2]>>],
     hit |-> TRUE]

\* a resolution that does not ask whether the balls approach each other
ResolveTouching(b1, b2, e, normal, v_normal, overlap10) ==
    Resolved(b1, b2,
             <<-(EDen + e) * v_normal * normal[1] * b1.mass * b2.mass,
               -(EDen + e) * v_normal * normal[2] * b1.mass * b2.mass>>,
             EDen * DirScale * DirScale * (b1.mass + b2.mass),
             <<RDiv(overlap10 * normal[1], 20 * DirScale),
               RDiv(overlap10 * normal[2], 20 * DirScale)>>)

\* impulse = -(1 + e) v_normal normal m1 m2 / (m1 + m2);
\* correction = overlap * normal / 2
ResolveApproach(b1, b2, e, normal, v_normal, overlap10) ==
    IF v_normal < 0
    THEN Resolved(b1, b2,
                  <<-(EDen + e) * v_normal * normal[1] * b1.mass * b2.mass,
                    -(EDen + e) * v_normal * normal[2] * b1.mass * b2.mass>>,
                  EDen * DirScale * DirScale * (b1.mass + b2.mass),
                  <<RDiv(overlap10 * normal[1], 20 * DirScale),
                    RDiv(overlap10 * normal[2], 20 * DirScale)>>)
    ELSE [ball |-> b1, other |-> b2, hit |-> FALSE]

ResolveAlong(b1, b2, e, normal, distance10) ==
    ResolveApproach(b1, b2, e, normal,
                    Dot2(<<b1.velocity[1] - b2.velocity[1],
                           b1.velocity[2] - b2.velocity[2]>>, normal),
                    10 * (b1.radius + b2.radius) - distance10)

CollisionAt(b1, b2, e, delta_pos) ==
    IF /\ b1.radius + b2.radius >= 0
       /\ SumSq2(delta_pos) <= (b1.radius + b2.radius) * (b1.radius + b2.radius)
       /\ SumSq2(delta_pos) > 0
    THEN ResolveAlong(b1, b2, e, UnitVec(delta_pos), Norm10(delta_pos))
    ELSE [ball |-> b1, other |-> b2, hit |-> FALSE]

\* BallDynamics.handle_ball_collision(other_ball, restitution) of the evaluator
\* of b1: both balls afterwards and the value returned.  A zero distance makes
\* the normal 0/0, the comparison v_normal < 0 false, and changes nothing.
handle_ball_collision(b1, b2, e) ==
    CollisionAt(b1, b2, e, <<b1.position[1] - b2.position[1],
                             b1.position[2] - b2.position[2]>>)

-----------------------------------------------------------------------------
(* Bounds of the model.                                                    *)

\* the longest time horizon, in ticks
MaxTime == 4
\* the largest step, in ticks
MaxDt == 2
\* how many times run() is called on one integrator
MaxRuns == 2
\* how many times a method of the evaluator is called in a row
MaxCalls == 2

\* tolerances are in units of 1/TolDen
TolDen == 100

-----------------------------------------------------------------------------
(* Simulation.                                                             *)

\* the spin with which a ball of radius r rolls at velocity v without slipping
MatchedSpin(v, r) == <<RDiv(v[2], r), RDiv(-v[1], r), 0>>

\* the ball slot of a machine that has no single ball
NoBall == Ball(1, 1, <<0, 0>>, <<0, 0>>, <<0, 0, 0>>)

\* the spin (0, 0, -v0 / r) given to a ball launched along x at v0
SpinAboutZ(v, r) == <<0, 0, RDiv(-v[1], r)>>

NoResults ==
    [time |-> <<>>, position |-> <<>>, velocity |-> <<>>, angular_velocity |-> <<>>,
     energy |-> <<>>, angular_momentum |-> <<>>, is_slipping |-> <<>>, shares |-> FALSE]

NoObs ==
    [last |-> "init", steps |-> 0, runs |-> 0, rest_hit |-> FALSE, rest_sample |-> 0,
     fetched |-> FALSE, first_results |-> NoResults, first_ball |-> NoBall,
     mutated |-> FALSE, run_start |-> 0, wall_hit |-> FALSE,
     cancel |-> FALSE, cancel_time |-> 0, prefix |-> <<>>, start_ball |-> NoBall]

\* the configurations a caller is entitled to build (spec section 6)
ValidSimConfigs ==
    [mass : {1, 2},
     radius : {10},
     velocity : {<<0, 0>>, <<30, 0>>, <<-44, 25>>},
     spin : {"none", "matched"},
     friction_coeff : {0, 1, 7},
     angle_deg : {0, 6, 114600, 3000000, 6000000},
     dt : 1..MaxDt,
     total_time : {MaxTime - 1, MaxTime},
     walls : {<<>>, <<[position |-> 50, axis |-> 0]>>},
     restitution : {5, 10}]

BaseSimConfig ==
    [mass |-> 1, radius |-> 10, velocity |-> <<30, 0>>, spin |-> "matched",
     friction_coeff |-> 1, angle_deg |-> 0, dt |-> 1, total_time |-> MaxTime - 1,
     walls |-> <<[position |-> 50, axis |-> 0]>>, restitution |-> 10]

\* configurations with one parameter out of its range
InvalidSimConfigs ==
    {[BaseSimConfig EXCEPT !.mass = m] : m \in {0, -1}}
    \cup {[BaseSimConfig EXCEPT !.radius = r] : r \in {0, -10}}
    \cup {[BaseSimConfig EXCEPT !.dt = h] : h \in {0, -1}}
    \cup {[BaseSimConfig EXCEPT !.total_time = t] : t \in {0, -1}}
    \cup {[BaseSimConfig EXCEPT !.friction_coeff = f] : f \in {-1}}
    \cup {[BaseSimConfig EXCEPT !.restitution = e] : e \in {-5, 15}}

NoMulti ==
    /\ balls = <<>>
    /\ ball_positions = <<>>
    /\ ball_velocities = <<>>

\* no integrators side by side
NoInstances == instances = <<>>

NoCall ==
    /\ call = [op |-> "none"]
    /\ ret = FALSE
    /\ NoInstances

\* Ball(...), Surface(...), Simulation(ball, surface, dt, total_time): the
\* state after construction
SimConstructedAt(c, position) ==
    /\ kind = "Simulation"
    /\ ball = Ball(c.mass, c.radius, position, c.velocity,
                   IF c.spin = "matched" /\ c.radius > 0
                   THEN MatchedSpin(c.velocity, c.radius)
                   ELSE IF c.spin = "z" /\ c.radius > 0
                        THEN SpinAboutZ(c.velocity, c.radius)
                        ELSE <<0, 0, 0>>)
    /\ surface = Surface(c.friction_coeff, c.angle_deg)
    /\ dt = c.dt
    /\ total_time = c.total_time
    /\ is_slipping = FALSE
    /\ time_points = <<>>
    /\ positions = <<>>
    /\ velocities = <<>>
    /\ angular_velocities = <<>>
    /\ energies = <<>>
    /\ angular_momenta = <<>>
    /\ is_slipping_history = <<>>
    /\ current_time = 0
    /\ walls = c.walls
    /\ restitution = c.restitution
    /\ state = "CONSTRUCTED"
    /\ results = NoResults
    /\ obs = NoObs
    /\ NoMulti
    /\ NoCall

\* the same with the ball at the origin
SimConstructed(c) == SimConstructedAt(c, <<0, 0>>)

SimInit ==
    \/ \E c \in ValidSimConfigs : SimConstructed(c)
    \/ \E c \in InvalidSimConfigs : SimConstructed(c)

\* the seven lists of the record
History ==
    [time |-> time_points, position |-> positions, velocity |-> velocities,
     angular_velocity |-> angular_velocities, energy |-> energies,
     angular_momentum |-> angular_momenta, is_slipping |-> is_slipping_history]

\* a run() that forgets the append to is_slipping_history
AppendSampleNoFlag(h, t, b, slip) ==
    [time |-> Append(h.time, t),
     position |-> Append(h.position, b.position),
     velocity |-> Append(h.velocity, b.velocity),
     angular_velocity |-> Append(h.angular_velocity, b.angular_velocity),
     energy |-> Append(h.energy, KineticEnergy10(b)),
     angular_momentum |-> Append(h.angular_momentum, AngularMomentum10(b)),
     is_slipping |-> h.is_slipping]

\* the seven appends of run(): one sample of ball b at time t
AppendSample(h, t, b, slip) ==
    [time |-> Append(h.time, t),
     position |-> Append(h.position, b.position),
     velocity |-> Append(h.velocity, b.velocity),
     angular_velocity |-> Append(h.angular_velocity, b.angular_velocity),
     energy |-> Append(h.energy, KineticEnergy10(b)),
     angular_momentum |-> Append(h.angular_momentum, AngularMomentum10(b)),
     is_slipping |-> Append(h.is_slipping, slip)]

\* a run() that appends nothing after its loop
NoTrailingSample(h, t, b, slip) == h

\* the trailing snapshot after the loop of Simulation.run()
TrailingSample(h, t, b, slip) ==
    IF Len(h.time) = 0 \/ h.time[Len(h.time)] < t
    THEN AppendSample(h, t, b, slip)
    ELSE h

SetHistory(h) ==
    /\ time_points' = h.time
    /\ positions' = h.position
    /\ velocities' = h.velocity
    /\ angular_velocities' = h.angular_velocity
    /\ energies' = h.energy
    /\ angular_momenta' = h.angular_momentum
    /\ is_slipping_history' = h.is_slipping

\* the loop over the walls of one step: each wall in the order supplied
RECURSIVE ApplyWalls(_, _, _, _)
ApplyWalls(b, ws, e, i) ==
    IF i > Len(ws) THEN b
    ELSE ApplyWalls(handle_wall_collision(b, ws[i].position, ws[i].axis, e).ball, ws, e, i + 1)

\* whether some wall of the loop over the walls reports a hit
RECURSIVE AnyWallHit(_, _, _, _)
AnyWallHit(b, ws, e, i) ==
    IF i > Len(ws) THEN FALSE
    ELSE \/ handle_wall_collision(b, ws[i].position, ws[i].axis, e).hit
         \/ AnyWallHit(handle_wall_collision(b, ws[i].position, ws[i].axis, e).ball,
                       ws, e, i + 1)

\* whether the walls of one step report a hit
StepHit(b, s, h, ws, e) ==
    AnyWallHit(SetStateFromVector(b, OdeintStep(b, s, StateVector(b), h)), ws, e, 1)

\* the ball after odeint, set_state_from_vector and the walls of one step
StepBall(b, s, h, ws, e) ==
    ApplyWalls(SetStateFromVector(b, OdeintStep(b, s, StateVector(b), h)), ws, e, 1)

\* the rest check of Simulation.run(): both speeds below the threshold
AtRest(b) ==
    NormBelow2(b.velocity, RestEps) /\ NormBelow3(b.angular_velocity, RestEps)

\* the rest check sets both velocities to zero
RestChecked(b) ==
    IF AtRest(b)
    THEN [b EXCEPT !.velocity = <<0, 0>>, !.angular_velocity = <<0, 0, 0>>]
    ELSE b

\* a rest check that leaves the loop whatever the surface
RestBreaksAnywhere(s) == TRUE

\* whether the rest check leaves the loop: only on a flat surface
RestBreaks(s) == Abs(s.angle) < AngleEps

\* a loop that leaves one step before the horizon
LoopConditionShort == current_time + dt < total_time

\* the loop condition of Simulation.run() and MultiballSimulation.run()
LoopCondition == current_time < total_time

\* a run() that takes up the clock where the last run left it
StartTimeResumed == current_time

\* current_time = 0.0, the first statement of run()
StartTime == 0

\* run(walls, restitution) is called: current_time = 0.0
Run ==
    /\ kind = "Simulation"
    /\ state # "RUNNING"
    /\ obs.runs < MaxRuns
    /\ current_time' = StartTime
    /\ state' = "RUNNING"
    /\ obs' = [obs EXCEPT !.last = "run", !.steps = 0, !.runs = @ + 1,
                          !.rest_hit = FALSE, !.rest_sample = 0,
                          !.fetched = FALSE, !.first_results = NoResults,
                          !.first_ball = NoBall, !.mutated = FALSE,
                          !.run_start = Len(time_points), !.wall_hit = FALSE,
                          !.cancel = FALSE, !.cancel_time = 0,
                          !.prefix = History, !.start_ball = ball]
    /\ UNCHANGED <<ball, surface, dt, total_time, is_slipping, time_points, positions,
                   velocities, angular_velocities, energies, angular_momenta,
                   is_slipping_history, walls, restitution, results,
                   balls, ball_positions, ball_velocities, call, ret, kind, instances>>

\* the body of the while loop of Simulation.run(): h1 is the record with this
\* iteration's sample, b2 the ball after integration and walls, f the flag,
\* hit whether a wall reported a hit
LoopBody(h1, b2, f, hit) ==
    /\ ball' = RestChecked(b2)
    /\ is_slipping' = f
    /\ IF AtRest(b2) /\ RestBreaks(surface)
       THEN /\ SetHistory(TrailingSample(h1, current_time, RestChecked(b2), f))
            /\ current_time' = current_time
            /\ state' = "STOPPED_AT_REST"
       ELSE /\ SetHistory(h1)
            /\ current_time' = current_time + dt
            /\ state' = "RUNNING"
    /\ obs' = [obs EXCEPT !.last = "step", !.steps = @ + 1,
                          !.wall_hit = hit,
                          !.rest_hit = AtRest(b2),
                          !.rest_sample = IF AtRest(b2) /\ @ = 0
                                          THEN Len(h1.time) ELSE @]

\* run() is inside its loop and the loop condition holds (an endless run,
\* dt <= 0, is followed for MaxTime + 1 iterations)
StepEnabled ==
    /\ kind = "Simulation"
    /\ state = "RUNNING"
    /\ LoopCondition
    /\ obs.steps <= MaxTime

\* one iteration of the while loop of Simulation.run()
LoopStep ==
    /\ StepEnabled
    /\ \E f \in FlagAfterOdeint(ball, surface, StateVector(ball), dt, is_slipping) :
           LoopBody(AppendSample(History, current_time, ball, is_slipping),
                    StepBall(ball, surface, dt, walls, restitution), f,
                    StepHit(ball, surface, dt, walls, restitution))
    /\ UNCHANGED <<surface, dt, total_time, walls, restitution, results,
                   balls, ball_positions, ball_velocities, call, ret, kind, instances>>

\* the loop condition fails: the trailing snapshot, and run() returns
LoopExit ==
    /\ kind = "Simulation"
    /\ state = "RUNNING"
    /\ ~LoopCondition
    /\ SetHistory(TrailingSample(History, current_time, ball, is_slipping))
    /\ state' = "STOPPED_AT_HORIZON"
    /\ obs' = [obs EXCEPT !.last = "exit"]
    /\ UNCHANGED <<ball, surface, dt, total_time, is_slipping, current_time, walls,
                   restitution, results, balls, ball_positions, ball_velocities,
                   call, ret, kind, instances>>

\* a get_results() that hands out the integrator's own lists
get_results_shared ==
    [time |-> time_points, position |-> positions, velocity |-> velocities,
     angular_velocity |-> angular_velocities, energy |-> energies,
     angular_momentum |-> angular_momenta, is_slipping |-> is_slipping_history,
     shares |-> TRUE]

\* Simulation.get_results(): np.array(...) of each list, a copy
get_results ==
    [time |-> time_points, position |-> positions, velocity |-> velocities,
     angular_velocity |-> angular_velocities, energy |-> energies,
     angular_momentum |-> angular_momenta, is_slipping |-> is_slipping_history,
     shares |-> FALSE]

\* results = sim.get_results()
GetResults ==
    /\ kind = "Simulation"
    /\ state # "RUNNING"
    /\ results' = get_results
    /\ obs' = [obs EXCEPT !.last = "get_results", !.fetched = TRUE,
                          !.first_results = IF obs.fetched THEN @ ELSE get_results,
                          !.first_ball = IF obs.fetched THEN @ ELSE ball]
    /\ UNCHANGED <<ball, surface, dt, total_time, is_slipping, time_points, positions,
                   velocities, angular_velocities, energies, angular_momenta,
                   is_slipping_history, current_time, walls, restitution, state,
                   balls, ball_positions, ball_velocities, call, ret, kind, instances>>

\* the caller writes into the record it was given: results['time'][0] = -1.
\* The write reaches the integrator's list only if the record shares it.
MutateResults ==
    /\ kind = "Simulation"
    /\ state # "RUNNING"
    /\ obs.fetched
    /\ Len(results.time) > 0
    /\ results.time[1] # -1
    /\ results' = [results EXCEPT !.time[1] = -1]
    /\ time_points' = IF results.shares THEN [time_points EXCEPT ![1] = -1]
                      ELSE time_points
    /\ obs' = [obs EXCEPT !.last = "mutate", !.mutated = TRUE]
    /\ UNCHANGED <<ball, surface, dt, total_time, is_slipping, positions,
                   velocities, angular_velocities, energies, angular_momenta,
                   is_slipping_history, current_time, walls, restitution, state,
                   balls, ball_positions, ball_velocities, call, ret, kind, instances>>

SimNext == Run \/ LoopStep \/ LoopExit \/ GetResults \/ MutateResults

\* the single-ball integrator, from construction on
Spec == SimInit /\ [][SimNext]_vars

\* run() is straight-line code on one thread: a loop that can take its next
\* iteration, or leave, does so.  The second conjunct is WF_vars(LoopStep) with
\* ENABLED <<LoopStep>>_vars written out: every iteration changes obs.steps, so
\* the iteration is enabled exactly when StepEnabled holds.
FairSpec ==
    /\ Spec
    /\ WF_vars(LoopExit)
    /\ ([]<>(~StepEnabled) \/ []<><<LoopStep>>_vars)

-----------------------------------------------------------------------------
(* MultiballSimulation.  (The regime flags of its evaluators are not part  *)
(* of its record and are left out.)                                        *)

NoSingle ==
    /\ ball = NoBall
    /\ is_slipping = FALSE
    /\ positions = <<>>
    /\ velocities = <<>>
    /\ angular_velocities = <<>>
    /\ energies = <<>>
    /\ angular_momenta = <<>>
    /\ is_slipping_history = <<>>

NoMultiObs ==
    [last |-> "init", steps |-> 0, runs |-> 0, hits |-> 0, all_hits |-> 0,
     p_before |-> <<0, 0>>, p_after |-> <<0, 0>>, mass_sum |-> 0,
     fetched |-> FALSE, run_start |-> 0, cancel |-> FALSE, cancel_time |-> 0,
     pairs |-> <<>>, integrated |-> <<>>]

\* two balls on the x axis, x0 either side of the origin
TwoBalls(m1, m2, x0, v1, v2) ==
    <<Ball(m1, 10, <<-x0, 0>>, <<v1, 0>>, <<0, 0, 0>>),
      Ball(m2, 10, <<x0, 0>>, <<v2, 0>>, <<0, 0, 0>>)>>

\* two balls meeting off the axes
ObliqueBalls(m1, m2) ==
    <<Ball(m1, 10, <<-16, -12>>, <<8, 6>>, <<0, 0, 0>>),
      Ball(m2, 10, <<11, 7>>, <<-3, -1>>, <<0, 0, 0>>)>>

\* three balls in a row: the outer two reach the middle one in the same step
ThreeBalls(m1, m2) ==
    <<Ball(m1, 10, <<-40, 0>>, <<10, 0>>, <<0, 0, 0>>),
      Ball(m2, 10, <<0, 0>>, <<0, 0>>, <<0, 0, 0>>),
      Ball(m1, 10, <<40, 0>>, <<-10, 0>>, <<0, 0, 0>>)>>

BallLists ==
    {TwoBalls(m[1], m[2], 30, v[1], v[2]) :
        m \in {<<1, 1>>, <<1, 2>>, <<2, 1>>},
        v \in {<<10, -10>>, <<10, 0>>, <<0, 0>>, <<-10, 10>>}}
    \cup {ObliqueBalls(m[1], m[2]) : m \in {<<1, 1>>, <<1, 2>>}}
    \cup {ThreeBalls(m[1], m[2]) : m \in {<<1, 1>>, <<1, 2>>}}

MultiConfigs ==
    [balls : BallLists,
     friction_coeff : {0, 7},
     angle_deg : {0, 3000000},
     dt : 1..MaxDt,
     total_time : {MaxTime - 1, MaxTime},
     walls : {<<>>, <<[position |-> 50, axis |-> 0]>>},
     restitution : {0, 5, 10}]

\* MultiballSimulation(balls, surface, dt, total_time): the state after construction
MultiConstructed(c) ==
    /\ kind = "MultiballSimulation"
    /\ balls = c.balls
    /\ surface = Surface(c.friction_coeff, c.angle_deg)
    /\ dt = c.dt
    /\ total_time = c.total_time
    /\ time_points = <<>>
    /\ ball_positions = [i \in 1..Len(c.balls) |-> <<>>]
    /\ ball_velocities = [i \in 1..Len(c.balls) |-> <<>>]
    /\ current_time = 0
    /\ walls = c.walls
    /\ restitution = c.restitution
    /\ state = "CONSTRUCTED"
    /\ results = NoResults
    /\ obs = NoMultiObs
    /\ NoSingle
    /\ NoCall

MultiInit == \E c \in MultiConfigs : MultiConstructed(c)

RECURSIVE TotalMomentum(_, _)
TotalMomentum(bs, i) ==
    IF i > Len(bs) THEN <<0, 0>>
    ELSE <<LinearMomentum(bs[i])[1] + TotalMomentum(bs, i + 1)[1],
           LinearMomentum(bs[i])[2] + TotalMomentum(bs, i + 1)[2]>>

RECURSIVE TotalMass(_, _)
TotalMass(bs, i) == IF i > Len(bs) THEN 0 ELSE bs[i].mass + TotalMass(bs, i + 1)

\* the lists after the outcome r of handle_ball_collision for the pair (i, j)
WithPair(acc, i, j, r) ==
    [balls |-> [acc.balls EXCEPT ![i] = r.ball, ![j] = r.other],
     hits |-> acc.hits + (IF r.hit THEN 1 ELSE 0),
     mass_sum |-> acc.mass_sum + (IF r.hit THEN r.ball.mass + r.other.mass ELSE 0),
     pairs |-> Append(acc.pairs, <<i, j>>)]

\* a pair loop whose inner index starts at the first ball
RECURSIVE ResolvePairsFromFirst(_, _, _, _)
ResolvePairsFromFirst(acc, i, j, e) ==
    IF i > Len(acc.balls) THEN acc
    ELSE IF j > Len(acc.balls) THEN ResolvePairsFromFirst(acc, i + 1, 1, e)
    ELSE IF j = i THEN ResolvePairsFromFirst(acc, i, j + 1, e)
    ELSE ResolvePairsFromFirst(
             WithPair(acc, i, j, handle_ball_collision(acc.balls[i], acc.balls[j], e)),
             i, j + 1, e)

\* for i in range(n): for j in range(i + 1, n): handle_ball_collision
RECURSIVE ResolvePairs(_, _, _, _)
ResolvePairs(acc, i, j, e) ==
    IF i > Len(acc.balls) THEN acc
    ELSE IF j > Len(acc.balls) THEN ResolvePairs(acc, i + 1, i + 2, e)
    ELSE ResolvePairs(
             WithPair(acc, i, j, handle_ball_collision(acc.balls[i], acc.balls[j], e)),
             i, j + 1, e)

\* the balls after the integration and wall loop of one step
IntegrateAll(bs, s, h, ws, e) == [i \in 1..Len(bs) |-> StepBall(bs[i], s, h, ws, e)]

\* run(walls, restitution) is called: current_time = 0.0
MultiRun ==
    /\ kind = "MultiballSimulation"
    /\ state # "RUNNING"
    /\ obs.runs < MaxRuns
    /\ current_time' = 0
    /\ state' = "RUNNING"
    /\ obs' = [obs EXCEPT !.last = "run", !.steps = 0, !.runs = @ + 1, !.hits = 0,
                          !.fetched = FALSE, !.run_start = Len(time_points),
                          !.cancel = FALSE, !.cancel_time = 0]
    /\ UNCHANGED <<ball, surface, dt, total_time, is_slipping, time_points, positions,
                   velocities, angular_velocities, energies, angular_momenta,
                   is_slipping_history, walls, restitution, results,
                   balls, ball_positions, ball_velocities, call, ret, kind, instances>>

\* the body of the while loop of MultiballSimulation.run(): bs1 are the balls
\* after integration and walls, r the outcome of the pair loop
MultiLoopBody(bs1, r) ==
    /\ time_points' = Append(time_points, current_time)
    /\ ball_positions' = [i \in 1..Len(balls) |-> Append(ball_positions[i], balls[i].position)]
    /\ ball_velocities' = [i \in 1..Len(balls) |-> Append(ball_velocities[i], balls[i].velocity)]
    /\ balls' = r.balls
    /\ current_time' = current_time + dt
    /\ obs' = [obs EXCEPT !.last = "step", !.steps = @ + 1, !.hits = r.hits,
                          !.all_hits = @ + r.hits,
                          !.mass_sum = r.mass_sum,
                          !.pairs = r.pairs,
                          !.integrated = bs1,
                          !.p_before = TotalMomentum(bs1, 1),
                          !.p_after = TotalMomentum(r.balls, 1)]

\* one iteration of the while loop of MultiballSimulation.run()
MultiLoopStep ==
    /\ kind = "MultiballSimulation"
    /\ state = "RUNNING"
    /\ LoopCondition
    /\ MultiLoopBody(IntegrateAll(balls, surface, dt, walls, restitution),
                     ResolvePairs([balls |-> IntegrateAll(balls, surface, dt, walls, restitution),
                                   hits |-> 0, mass_sum |-> 0, pairs |-> <<>>],
                                  1, 2, restitution))
    /\ UNCHANGED <<ball, surface, dt, total_time, is_slipping, positions, velocities,
                   angular_velocities, energies, angular_momenta, is_slipping_history,
                   walls, restitution, state, results, call, ret, kind, instances>>

\* the loop condition fails: the trailing sample, and run() returns
MultiLoopExit ==
    /\ kind = "MultiballSimulation"
    /\ state = "RUNNING"
    /\ ~LoopCondition
    /\ time_points' = Append(time_points, current_time)
    /\ ball_positions' = [i \in 1..Len(balls) |-> Append(ball_positions[i], balls[i].position)]
    /\ ball_velocities' = [i \in 1..Len(balls) |-> Append(ball_velocities[i], balls[i].velocity)]
    /\ state' = "STOPPED_AT_HORIZON"
    /\ obs' = [obs EXCEPT !.last = "exit"]
    /\ UNCHANGED <<ball, surface, dt, total_time, is_slipping, positions, velocities,
                   angular_velocities, energies, angular_momenta, is_slipping_history,
                   current_time, walls, restitution, results, balls, call, ret, kind, instances>>

\* MultiballSimulation.get_results()
multi_get_results ==
    [time |-> time_points, positions |-> ball_positions, velocities |-> ball_velocities]

\* results = sim.get_results()
MultiGetResults ==
    /\ kind = "MultiballSimulation"
    /\ state # "RUNNING"
    /\ ~obs.fetched
    /\ results' = multi_get_results
    /\ obs' = [obs EXCEPT !.last = "get_results", !.fetched = TRUE]
    /\ UNCHANGED <<ball, surface, dt, total_time, is_slipping, time_points, positions,
                   velocities, angular_velocities, energies, angular_momenta,
                   is_slipping_history, current_time, walls, restitution, state,
                   balls, ball_positions, ball_velocities, call, ret, kind, instances>>

MultiNext == MultiRun \/ MultiLoopStep \/ MultiLoopExit \/ MultiGetResults

\* the multi-ball integrator, from construction on
MultiSpec == MultiInit /\ [][MultiNext]_vars

-----------------------------------------------------------------------------
(* Direct calls of the methods of one BallDynamics evaluator.              *)

NoRun ==
    /\ dt = 1
    /\ total_time = 0
    /\ time_points = <<>>
    /\ current_time = 0
    /\ walls = <<>>
    /\ restitution = EDen
    /\ state = "CONSTRUCTED"
    /\ results = NoResults
    /\ NoInstances

NoCallObs == [last |-> "init", calls |-> 0, pre |-> NoBall, pre_balls |-> <<>>,
              pre_flag |-> FALSE]

\* a ball near a wall at 50, and the call dynamics.handle_wall_collision(50, axis, e)
WallInit ==
    \E r \in {10, 0}, x \in {39, 40, 41, 50, 59, 60, 61}, y \in {0, 45},
       v \in {<<400, -200>>, <<-400, 800>>, <<0, 0>>}, axis \in {0, 1}, e \in {0, 5, 10} :
        /\ kind = "BallDynamics"
        /\ ball = Ball(1, r, <<x, y>>, v, <<3, -2, 1>>)
        /\ surface = Surface(1, 0)
        /\ is_slipping = FALSE
        /\ call = [op |-> "handle_wall_collision", done |-> FALSE,
                   wall_position |-> 50, axis |-> axis, restitution |-> e]
        /\ ret = FALSE
        /\ obs = NoCallObs
        /\ positions = <<>>
        /\ velocities = <<>>
        /\ angular_velocities = <<>>
        /\ energies = <<>>
        /\ angular_momenta = <<>>
        /\ is_slipping_history = <<>>
        /\ NoMulti
        /\ NoRun

\* an evaluator and the call dynamics.equations_of_motion(state, t)
EomInit ==
    \E m \in {1, 2, -1, 0}, r \in {10, 0}, f \in {0, 1, 7},
       a \in {0, 6, 114600, 3000000, 6000000, -3000000}, flag \in BOOLEAN,
       v \in {<<0, 0>>, <<30, 0>>, <<-44, 25>>}, w \in {<<0, 0, 0>>, <<2, -3, 1>>} :
        /\ kind = "BallDynamics"
        /\ ball = Ball(m, r, <<0, 0>>, <<1, 1>>, <<0, 0, 0>>)
        /\ surface = Surface(f, a)
        /\ is_slipping = flag
        /\ call = [op |-> "equations_of_motion", done |-> FALSE,
                   state |-> <<5, -5, v[1], v[2], w[1], w[2], w[3]>>]
        /\ ret = FALSE
        /\ obs = NoCallObs
        /\ positions = <<>>
        /\ velocities = <<>>
        /\ angular_velocities = <<>>
        /\ energies = <<>>
        /\ angular_momenta = <<>>
        /\ is_slipping_history = <<>>
        /\ NoMulti
        /\ NoRun

\* two balls and the call dynamics_list[0].handle_ball_collision(balls[1], e)
CollideInit ==
    \E m \in {<<1, 1>>, <<1, 2>>, <<2, 1>>, <<2, 2>>},
       dx \in {0, 12, 16, 20, 21}, dy \in {0, 12, -15},
       v1 \in {<<10, 0>>, <<0, 0>>, <<-10, 4>>}, v2 \in {<<-10, 0>>, <<0, 5>>},
       e \in {0, 5, 10} :
        /\ kind = "BallDynamics"
        /\ balls = <<Ball(m[1], 10, <<0, 0>>, v1, <<3, -2, 1>>),
                     Ball(m[2], 10, <<dx, dy>>, v2, <<0, 4, -1>>)>>
        /\ ball = NoBall
        /\ surface = Surface(1, 0)
        /\ is_slipping = FALSE
        /\ call = [op |-> "handle_ball_collision", done |-> FALSE, restitution |-> e]
        /\ ret = FALSE
        /\ obs = NoCallObs
        /\ ball_positions = <<>>
        /\ ball_velocities = <<>>
        /\ positions = <<>>
        /\ velocities = <<>>
        /\ angular_velocities = <<>>
        /\ energies = <<>>
        /\ angular_momenta = <<>>
        /\ is_slipping_history = <<>>
        /\ NoRun

CallInit == WallInit \/ EomInit \/ CollideInit

RunUnchanged ==
    UNCHANGED <<surface, dt, total_time, time_points, positions, velocities,
                angular_velocities, energies, angular_momenta, is_slipping_history,
                current_time, walls, restitution, state, results,
                ball_positions, ball_velocities, kind, instances>>

CallObs == [obs EXCEPT !.last = call.op, !.calls = @ + 1, !.pre = ball,
                       !.pre_balls = balls, !.pre_flag = is_slipping]

\* dynamics.handle_wall_collision(wall_position, axis, restitution)
WallCall ==
    /\ kind = "BallDynamics"
    /\ call.op = "handle_wall_collision"
    /\ ~call.done
    /\ ball' = handle_wall_collision(ball, call.wall_position, call.axis,
                                     call.restitution).ball
    /\ ret' = handle_wall_collision(ball, call.wall_position, call.axis,
                                    call.restitution).hit
    /\ call' = [call EXCEPT !.done = TRUE]
    /\ obs' = CallObs
    /\ UNCHANGED <<is_slipping, balls>>
    /\ RunUnchanged

\* dynamics.equations_of_motion(state, t): the ball takes the state it is
\* given, the flag is set, the derivative is returned
EomCall ==
    /\ kind = "BallDynamics"
    /\ call.op = "equations_of_motion"
    /\ ~call.done
    /\ ball' = SetStateFromVector(ball, call.state)
    /\ ret' = equations_of_motion(ball, surface, call.state).d
    /\ is_slipping' = equations_of_motion(ball, surface, call.state).is_slipping
    /\ call' = [call EXCEPT !.done = TRUE]
    /\ obs' = CallObs
    /\ UNCHANGED <<balls>>
    /\ RunUnchanged

\* dynamics_list[0].handle_ball_collision(balls[1], restitution)
CollideCall ==
    /\ kind = "BallDynamics"
    /\ call.op = "handle_ball_collision"
    /\ ~call.done
    /\ balls' = <<handle_ball_collision(balls[1], balls[2], call.restitution).ball,
                  handle_ball_collision(balls[1], balls[2], call.restitution).other>>
    /\ ret' = handle_ball_collision(balls[1], balls[2], call.restitution).hit
    /\ call' = [call EXCEPT !.done = TRUE]
    /\ obs' = CallObs
    /\ UNCHANGED <<ball, is_slipping>>
    /\ RunUnchanged

\* the caller makes the same call once more
CallAgain ==
    /\ kind = "BallDynamics"
    /\ call.done
    /\ obs.calls < MaxCalls
    /\ call' = [call EXCEPT !.done = FALSE]
    /\ UNCHANGED <<ball, balls, is_slipping, ret, obs>>
    /\ RunUnchanged

CallNext == WallCall \/ EomCall \/ CollideCall \/ CallAgain

\* direct calls of the evaluator's methods
CallSpec == CallInit /\ [][CallNext]_vars

\* the integrators and the direct calls together
AllSpec == (SimInit \/ MultiInit \/ CallInit) /\ [][SimNext \/ MultiNext \/ CallNext]_vars

-----------------------------------------------------------------------------
(* Properties of Simulation.                                               *)

Stopped == state \in {"STOPPED_AT_REST", "STOPPED_AT_HORIZON"}

\* a parameter of the integrator is outside the range the specification allows
InvalidConfiguration ==
    \/ ball.mass <= 0
    \/ ball.radius <= 0
    \/ dt <= 0
    \/ total_time <= 0
    \/ surface.friction_coeff < 0
    \/ restitution < 0
    \/ restitution > EDen

\* C1, as stated: an integrator built from an invalid configuration (mass <= 0,
\* radius <= 0, dt <= 0, total_time <= 0, friction_coeff < 0, restitution
\* outside [0, 1]) executes no step and records no sample.
C1_InvalidConfigurationRefused ==
    (kind = "Simulation" /\ InvalidConfiguration)
        => (obs.steps = 0 /\ time_points = <<>>)

\* a run of a ball of non-positive mass that stepped to the horizon and
\* recorded every step
C1_InvalidRunRecorded ==
    /\ kind = "Simulation"
    /\ ball.mass <= 0
    /\ state = "STOPPED_AT_HORIZON"
    /\ obs.steps >= 2
    /\ Len(time_points) = obs.steps + 1

\* C2: with dt > 0 a run() that has started returns; it leaves RUNNING only as
\* STOPPED_AT_REST or STOPPED_AT_HORIZON; it stops at rest only on a surface
\* with |angle| < 1e-6, and at the horizon only with current_time >= total_time.
C2_RunTerminates ==
    /\ (kind = "Simulation" /\ state = "RUNNING" /\ dt > 0) ~> Stopped
    /\ [][(state = "RUNNING" /\ state' # "RUNNING") => Stopped']_vars
    /\ [](kind = "Simulation" /\ state = "STOPPED_AT_REST" => Abs(surface.angle) < AngleEps)
    /\ [](kind = "Simulation" /\ state = "STOPPED_AT_HORIZON" => current_time >= total_time)

\* a valid run that the rest check ended before the horizon
C2_StoppedAtRest ==
    /\ kind = "Simulation"
    /\ ~InvalidConfiguration
    /\ state = "STOPPED_AT_REST"
    /\ obs.steps >= 1
    /\ current_time < total_time

\* C3, as stated: when the rest check of a step finds both speeds below the
\* threshold the ball's velocities are zero after the step; on a flat surface
\* (|angle| < 1e-6) the run has then stopped; on an incline (|angle| > 1e-6) the
\* run goes on and a later recorded sample has a nonzero velocity again.
C3_RestCheck ==
    /\ (kind = "Simulation" /\ obs.last = "step" /\ obs.rest_hit)
           => /\ ball.velocity = <<0, 0>>
              /\ ball.angular_velocity = <<0, 0, 0>>
              /\ (Abs(surface.angle) < AngleEps => state = "STOPPED_AT_REST")
              /\ (OnIncline(surface) => state = "RUNNING")
    /\ (/\ kind = "Simulation"
        /\ state = "STOPPED_AT_HORIZON"
        /\ OnIncline(surface)
        /\ obs.rest_sample > 0
        /\ Len(velocities) >= obs.rest_sample + 2)
           => \E i \in (obs.rest_sample + 2)..Len(velocities) : velocities[i] # <<0, 0>>

\* a run on an incline (|angle| well above 1e-6) in which every step after the
\* first ended in the rest check: the ball has moved down the slope, and every
\* recorded velocity is zero
C3_FrozenOnIncline ==
    /\ kind = "Simulation"
    /\ ~InvalidConfiguration
    /\ state = "STOPPED_AT_HORIZON"
    /\ OnIncline(surface)
    /\ obs.rest_sample = 1
    /\ obs.steps >= 3
    /\ ball.position # positions[1]
    /\ \A i \in 1..Len(velocities) : velocities[i] = <<0, 0>>

\* C4: after run() has returned on a fresh integrator the record is non-empty
\* and holds a sample at or beyond the time at which stepping stopped; after a
\* run to the horizon the last recorded time is >= total_time.
C4_SampleAtStop ==
    (kind = "Simulation" /\ obs.runs = 1 /\ Stopped)
        => /\ time_points # <<>>
           /\ \E i \in 1..Len(time_points) : time_points[i] >= current_time
           /\ (state = "STOPPED_AT_HORIZON"
                   => time_points[Len(time_points)] >= total_time)

\* a first run that reached the horizon and whose last sample is the trailing
\* snapshot
C4_TrailingRecorded ==
    /\ kind = "Simulation"
    /\ obs.runs = 1
    /\ state = "STOPPED_AT_HORIZON"
    /\ obs.steps >= 2
    /\ Len(time_points) = obs.steps + 1
    /\ time_points[Len(time_points)] >= total_time

\* C5: in every state of either integrator (before a run, between runs, after
\* runs that stopped at rest or at the horizon, with total_time <= 0) the seven
\* arrays of Simulation.get_results() have one length, and the time array of
\* MultiballSimulation.get_results() has the length of each ball's positions
\* and velocities.
C5_EqualLengths ==
    /\ kind = "Simulation"
           => /\ Len(get_results.position) = Len(get_results.time)
              /\ Len(get_results.velocity) = Len(get_results.time)
              /\ Len(get_results.angular_velocity) = Len(get_results.time)
              /\ Len(get_results.energy) = Len(get_results.time)
              /\ Len(get_results.angular_momentum) = Len(get_results.time)
              /\ Len(get_results.is_slipping) = Len(get_results.time)
    /\ kind = "MultiballSimulation"
           => \A i \in 1..Len(balls) :
                  /\ Len(multi_get_results.positions[i]) = Len(multi_get_results.time)
                  /\ Len(multi_get_results.velocities[i]) = Len(multi_get_results.time)

\* a second run on one integrator, ended by the rest check, on top of the
\* record of the first
C5_AfterRepeatedRuns ==
    /\ kind = "Simulation"
    /\ obs.runs = 2
    /\ state = "STOPPED_AT_REST"
    /\ obs.run_start >= 1
    /\ Len(time_points) > obs.run_start

\* C6: once a record has been fetched after a run, and until the next run,
\* get_results() returns that same record whatever was written into a returned
\* record meanwhile, the record just returned by a call equals it, and the ball
\* is as it was at the first call.
C6_Snapshot ==
    (kind = "Simulation" /\ obs.fetched)
        => /\ get_results = obs.first_results
           /\ ball = obs.first_ball
           /\ (obs.last = "get_results" => results = obs.first_results)

\* a record was fetched, written into, and fetched again
C6_FetchedAfterWrite ==
    /\ kind = "Simulation"
    /\ obs.last = "get_results"
    /\ obs.mutated
    /\ Len(results.time) >= 2
    /\ results.time[1] # -1

-----------------------------------------------------------------------------
(* Properties of BallDynamics and MultiballSimulation.                     *)

\* C7: handle_wall_collision(wall, axis, e), axis 0 or 1, returns True exactly
\* when |position[axis] - wall| <= radius, and then the velocity component on
\* that axis is -e times what it was.
C7_WallHit ==
    (kind = "BallDynamics" /\ obs.last = "handle_wall_collision")
        => /\ ret = (Abs(obs.pre.position[call.axis + 1] - call.wall_position)
                         <= obs.pre.radius)
           /\ ret => (ball.velocity[call.axis + 1] * EDen
                          = -call.restitution * obs.pre.velocity[call.axis + 1])

\* a moving ball that just touches the wall is reflected
C7_TouchingBallReflected ==
    /\ kind = "BallDynamics"
    /\ obs.last = "handle_wall_collision"
    /\ ret = TRUE
    /\ obs.pre.radius > 0
    /\ Abs(obs.pre.position[call.axis + 1] - call.wall_position) = obs.pre.radius
    /\ obs.pre.velocity[call.axis + 1] # 0
    /\ call.restitution = 5

\* C8: handle_ball_collision leaves m1*v1 + m2*v2 as it was (to within the
\* rounding of the two velocity updates), called directly and in every step of
\* a multi-ball run; and a run of two balls of equal mass meeting head-on at +1
\* and -1 m/s on a frictionless flat surface, e = 1.0, no walls, ends with the
\* total momentum it began with, within 0.1 kg*m/s.
C8_MomentumPreserved ==
    /\ (kind = "BallDynamics" /\ obs.last = "handle_ball_collision")
           => \A k \in {1, 2} :
                  2 * Abs(TotalMomentum(balls, 1)[k] - TotalMomentum(obs.pre_balls, 1)[k])
                      <= TotalMass(balls, 1)
    /\ (kind = "MultiballSimulation" /\ obs.last = "step")
           => \A k \in {1, 2} : 2 * Abs(obs.p_after[k] - obs.p_before[k]) <= obs.mass_sum
    /\ (/\ kind = "MultiballSimulation"
        /\ state = "STOPPED_AT_HORIZON"
        /\ Len(balls) = 2
        /\ balls[1].mass = balls[2].mass
        /\ ball_velocities[1][1] = <<10, 0>>
        /\ ball_velocities[2][1] = <<-10, 0>>
        /\ surface = Surface(0, 0)
        /\ restitution = EDen
        /\ walls = <<>>)
           => \A k \in {1, 2} : Abs(TotalMomentum(balls, 1)[k]) <= 1

\* the head-on run after the two balls have met and exchanged velocities
C8_HeadOnCollided ==
    /\ kind = "MultiballSimulation"
    /\ state = "STOPPED_AT_HORIZON"
    /\ Len(balls) = 2
    /\ balls[1].mass = balls[2].mass
    /\ ball_velocities[1][1] = <<10, 0>>
    /\ ball_velocities[2][1] = <<-10, 0>>
    /\ surface = Surface(0, 0)
    /\ restitution = EDen
    /\ walls = <<>>
    /\ obs.all_hits >= 1
    /\ balls[1].velocity = <<-10, 0>>
    /\ balls[2].velocity = <<10, 0>>

\* C9: MultiballSimulation.run() stops only at the horizon: it never stops at
\* rest, it has returned only with current_time >= total_time after a step for
\* every current_time < total_time, and then the run has recorded one sample
\* per step plus the trailing one, the last at a time >= total_time.
C9_RunsToHorizon ==
    kind = "MultiballSimulation"
        => /\ state # "STOPPED_AT_REST"
           /\ state \in {"RUNNING", "STOPPED_AT_HORIZON"} => current_time = obs.steps * dt
           /\ state = "STOPPED_AT_HORIZON"
                  => /\ current_time >= total_time
                     /\ (obs.steps - 1) * dt < total_time
                     /\ Len(time_points) - obs.run_start = obs.steps + 1
                     /\ time_points[Len(time_points)] >= total_time

\* a run to the horizon in which every ball was at rest from the first sample on
C9_AllAtRestToHorizon ==
    /\ kind = "MultiballSimulation"
    /\ state = "STOPPED_AT_HORIZON"
    /\ obs.steps >= 3
    /\ \A i \in 1..Len(balls) :
           \A j \in 1..Len(time_points) : ball_velocities[i][j] = <<0, 0>>

\* C10: a derivative evaluation, called directly or by a step of a run, leaves
\* is_slipping true exactly when the surface is an incline and
\* (2/7)*m*g*sin(theta) > mu*m*g*cos(theta), false on a flat surface; a run of
\* at least one step on the incline theta = 60 degrees, mu = 0.1 has recorded
\* is_slipping true in some sample.
C10_SlipFlag ==
    /\ (\/ kind = "BallDynamics" /\ obs.last = "equations_of_motion"
        \/ kind = "Simulation" /\ obs.last = "step" /\ dt # 0)
           => is_slipping =
                  (/\ Abs(surface.angle) > AngleEps
                   /\ 2 * ball.mass * G * Sin(surface.angle) * MuDen
                          > 7 * surface.friction_coeff * ball.mass * G * Cos(surface.angle))
    /\ (/\ kind = "Simulation"
        /\ Stopped
        /\ obs.steps >= 1
        /\ dt # 0
        /\ surface = Surface(1, 6000000))
           => \E i \in (obs.run_start + 1)..Len(is_slipping_history) :
                  is_slipping_history[i]

\* a first run on the incline of 60 degrees with mu = 0.1: the first sample
\* carries the flag of construction, the last one the slipping regime
C10_SlippingRecorded ==
    /\ kind = "Simulation"
    /\ state = "STOPPED_AT_HORIZON"
    /\ obs.runs = 1
    /\ surface = Surface(1, 6000000)
    /\ is_slipping_history[1] = FALSE
    /\ is_slipping_history[Len(is_slipping_history)] = TRUE

-----------------------------------------------------------------------------
(* Simulation.check_energy_conservation.                                   *)

\* ten times mass * g * height_change, height_change = -pos[0] * sin(angle)
PotentialEnergy10(mass, s, pos) == RDiv(-(10 * mass * G * pos[1] * Sin(s.angle)), TrigScale)

\* ten times total_energy of sample i, as check_energy_conservation computes it
TotalEnergy10(i) == energies[i] + PotentialEnergy10(ball.mass, surface, positions[i])

\* deviation > tolerance, deviation = abs(total - initial) / initial
DeviationExceeds(total, initial, tolerance) ==
    Abs(total - initial) * TolDen > tolerance * initial

\* a check without the guard initial_energy > 0
check_energy_conservation_unguarded(tolerance) ==
    IF Len(energies) < 2 THEN TRUE
    ELSE ~ \E i \in 1..Len(positions) :
               /\ DeviationExceeds(TotalEnergy10(i), energies[1], tolerance)
               /\ ~is_slipping

\* Simulation.check_energy_conservation(tolerance)
check_energy_conservation(tolerance) ==
    IF Len(energies) < 2 THEN TRUE
    ELSE ~ \E i \in 1..Len(positions) :
               /\ energies[1] > 0
               /\ DeviationExceeds(TotalEnergy10(i), energies[1], tolerance)
               /\ ~is_slipping

\* runs whose ball starts at, above or below the origin of the slope
EnergyConfigs ==
    [mass : {1, 2},
     radius : {10},
     velocity : {<<0, 0>>, <<30, 0>>},
     spin : {"none"},
     friction_coeff : {1, 7},
     angle_deg : {0, 3000000, 6000000},
     dt : 1..MaxDt,
     total_time : {MaxTime - 1, MaxTime},
     walls : {<<>>},
     restitution : {10}]

EnergyInit == \E c \in EnergyConfigs, x0 \in {-20, 0, 20} : SimConstructedAt(c, <<x0, 0>>)

\* ok = sim.check_energy_conservation(tolerance)
CheckEnergy ==
    /\ kind = "Simulation"
    /\ state # "RUNNING"
    /\ \E tolerance \in {5, 50} :
           /\ ret' = check_energy_conservation(tolerance)
           /\ call' = [op |-> "check_energy_conservation", tolerance |-> tolerance]
    /\ obs' = [obs EXCEPT !.last = "check_energy"]
    /\ UNCHANGED <<ball, surface, dt, total_time, is_slipping, time_points, positions,
                   velocities, angular_velocities, energies, angular_momenta,
                   is_slipping_history, current_time, walls, restitution, state,
                   results, balls, ball_positions, ball_velocities, kind, instances>>

\* the single-ball integrator with its energy check
EnergySpec == EnergyInit /\ [][SimNext \/ CheckEnergy]_vars

\* C11, as stated: check_energy_conservation(tolerance) returns False exactly
\* when some sample recorded as non-slipping has a total energy (recorded
\* kinetic energy + m*g*h, h = -x*sin(theta)) whose relative deviation from the
\* total energy of the initial sample exceeds tolerance.
C11_EnergyCheck ==
    (kind = "Simulation" /\ obs.last = "check_energy")
        => ((ret = FALSE)
               <=> \E i \in 1..Len(positions) :
                       /\ ~is_slipping_history[i]
                       /\ TotalEnergy10(1) # 0
                       /\ Abs(TotalEnergy10(i) - TotalEnergy10(1)) * TolDen
                              > call.tolerance * Abs(TotalEnergy10(1)))

\* a ball released from rest above the origin of a non-slipping incline: its
\* total energy has left the initial total by more than the tolerance in a
\* non-slipping sample, and the check has returned True
C11_DriftAccepted ==
    /\ kind = "Simulation"
    /\ obs.last = "check_energy"
    /\ ret = TRUE
    /\ ~is_slipping
    /\ Len(positions) >= 2
    /\ TotalEnergy10(1) > 0
    /\ \E i \in 2..Len(positions) :
           /\ ~is_slipping_history[i]
           /\ Abs(TotalEnergy10(i) - TotalEnergy10(1)) * TolDen
                  > call.tolerance * TotalEnergy10(1)

\* the sum of the total energies of samples i..n of the record
RECURSIVE SumTotalEnergy10(_)
SumTotalEnergy10(i) ==
    IF i > Len(energies) THEN 0 ELSE TotalEnergy10(i) + SumTotalEnergy10(i + 1)

\* a first run to the horizon of a ball of 1 kg released from rest at the origin
\* of the incline theta = 30 degrees, mu = 0.7
ReleasedOnIncline30 ==
    /\ kind = "Simulation"
    /\ state = "STOPPED_AT_HORIZON"
    /\ obs.runs = 1
    /\ surface = Surface(7, 3000000)
    /\ ball.mass = 1
    /\ positions[1] = <<0, 0>>
    /\ velocities[1] = <<0, 0>>
    /\ angular_velocities[1] = <<0, 0, 0>>

\* C12, as stated: over that run the total energy of the record (kinetic +
\* m*g*h, h = -x*sin(theta)) satisfies (max - min) / mean < 0.05, the mean
\* being positive (max = min when the mean is not positive).
C12_EnergyWithin5Percent ==
    ReleasedOnIncline30
        => \A i, j \in 1..Len(energies) :
               IF SumTotalEnergy10(1) > 0
               THEN 20 * Len(energies) * (TotalEnergy10(i) - TotalEnergy10(j))
                        < SumTotalEnergy10(1)
               ELSE TotalEnergy10(i) = TotalEnergy10(j)

\* the run has ended with max - min of the total energy above the mean itself
C12_EnergyDrifts ==
    /\ ReleasedOnIncline30
    /\ ~is_slipping
    /\ SumTotalEnergy10(1) > 0
    /\ Len(energies) * (TotalEnergy10(Len(energies)) - TotalEnergy10(1))
           > SumTotalEnergy10(1)

\* C13, as stated: in that run the acceleration measured from the record at a
\* sample time t > 0, velocity[0] / t, is within 5% of (5/7)*g*sin(theta).
C13_MeasuredAcceleration ==
    ReleasedOnIncline30
        => \A i \in 1..Len(time_points) :
               time_points[i] > 0
                   => 20 * Abs(7 * TrigScale * velocities[i][1]
                                   - 5 * G * Sin(surface.angle) * time_points[i])
                          < 5 * G * Sin(surface.angle) * time_points[i]

\* the ball rolls without slipping and the measured acceleration is below 90%
\* of (5/7)*g*sin(theta)
C13_AccelerationShort ==
    /\ ReleasedOnIncline30
    /\ ~is_slipping
    /\ Len(time_points) >= 2
    /\ time_points[2] > 0
    /\ velocities[2][1] > 0
    /\ 10 * 7 * TrigScale * velocities[2][1]
           < 9 * 5 * G * Sin(surface.angle) * time_points[2]

-----------------------------------------------------------------------------
(* Rolling resistance on a flat surface.                                   *)

\* balls launched on a flat surface, spinning about the rolling axis or about z
FrictionConfigs ==
    [mass : {1, 2},
     radius : {1, 10},
     velocity : {<<13, 0>>, <<30, 0>>, <<0, 13>>},
     spin : {"matched", "z"},
     friction_coeff : {1, 2, 7},
     angle_deg : {0},
     dt : 1..MaxDt,
     total_time : {MaxTime - 1, MaxTime},
     walls : {<<>>},
     restitution : {10}]

FrictionInit == \E c \in FrictionConfigs : SimConstructed(c)

\* the single-ball integrator on flat surfaces with friction
FrictionSpec == FrictionInit /\ [][SimNext]_vars

\* a ball launched along x on a flat surface with the spin (0, 0, -v0 / r)
LaunchedWithSpinAboutZ ==
    /\ kind = "Simulation"
    /\ obs.runs = 1
    /\ Len(velocities) >= 1
    /\ ~OnIncline(surface)
    /\ surface.friction_coeff > 0
    /\ velocities[1][1] > 0
    /\ velocities[1][2] = 0
    /\ angular_velocities[1] = SpinAboutZ(velocities[1], ball.radius)

\* C14, as stated: for such a ball the recorded kinetic energy strictly
\* decreases from each sample to the next while the ball is moving, and a run
\* whose horizon is beyond the stopping time v0 / ((2/7)*mu*g) ends with a
\* recorded speed below v0 / 20 (0.1 m/s for v0 = 2 m/s).
C14_EnergyDecreases ==
    LaunchedWithSpinAboutZ
        => /\ \A i \in 1..(Len(energies) - 1) :
                  (velocities[i] # <<0, 0>> /\ velocities[i + 1] # <<0, 0>>)
                      => energies[i + 1] < energies[i]
           /\ (/\ state = "STOPPED_AT_HORIZON"
               /\ 2 * surface.friction_coeff * G * total_time
                      >= 7 * MuDen * velocities[1][1])
                  => 400 * SumSq2(velocities[Len(velocities)]) < SumSq2(velocities[1])

\* the ball is still moving in two consecutive samples and its recorded
\* kinetic energy has grown from the first to the second
C14_EnergyGrows ==
    /\ LaunchedWithSpinAboutZ
    /\ \E i \in 1..(Len(energies) - 1) :
           /\ velocities[i][1] > velocities[i + 1][1]
           /\ velocities[i + 1][1] > 0
           /\ energies[i + 1] > energies[i]

-----------------------------------------------------------------------------
(* A ball launched along x towards a wall on axis 0.                       *)

BounceConfigs ==
    [mass : {1},
     radius : {10},
     velocity : {<<10, 0>>, <<13, 0>>},
     spin : {"none"},
     friction_coeff : {0, 1},
     angle_deg : {0},
     dt : 1..MaxDt,
     total_time : {MaxTime - 1, MaxTime},
     walls : {<<[position |-> 25, axis |-> 0]>>, <<[position |-> 45, axis |-> 0]>>},
     restitution : {0, 5, 10}]

BounceInit == \E c \in BounceConfigs : SimConstructed(c)

BounceSpec == BounceInit /\ [][SimNext]_vars

\* the first run of an integrator with one wall across the x axis, the ball
\* started short of it
OneWallAhead ==
    /\ kind = "Simulation"
    /\ obs.runs = 1
    /\ Len(walls) = 1
    /\ walls[1].axis = 0
    /\ Len(positions) >= 1
    /\ positions[1][1] < walls[1].position - ball.radius

\* two consecutive samples whose x-velocities have opposite signs
SignChanges ==
    \E i \in 1..(Len(velocities) - 1) : velocities[i][1] * velocities[i + 1][1] < 0

\* C15: a ball launched on a flat surface towards a wall on axis 0, with
\* restitution 1 and a step shorter than the ball is wide, that was recorded
\* at the wall has two consecutive samples whose x-velocities differ in sign
C15_VelocityReverses ==
    (/\ OneWallAhead
     /\ Stopped
     /\ restitution = EDen
     /\ velocities[1][1] > 0
     /\ velocities[1][1] * dt <= 2 * ball.radius
     /\ \E i \in 1..Len(positions) : positions[i][1] >= walls[1].position - ball.radius)
    => SignChanges

C15_BouncedBack ==
    /\ OneWallAhead
    /\ state = "STOPPED_AT_HORIZON"
    /\ restitution = EDen
    /\ velocities[1][1] * dt <= 2 * ball.radius
    /\ \E i \in 2..Len(positions) :
           /\ positions[i][1] = walls[1].position - ball.radius
           /\ velocities[i - 1][1] > 0
           /\ velocities[i][1] < 0

\* C18: a hit in a step the ball began short of the wall leaves the ball's
\* coordinate one radius short of the wall, never beyond it
C18_PlacedOnApproachSide ==
    (/\ OneWallAhead
     /\ obs.last = "step"
     /\ obs.wall_hit
     /\ positions[Len(positions)][1] < walls[1].position - ball.radius)
    => ball.position[1] = walls[1].position - ball.radius

C18_PlacedBeyondWall ==
    /\ OneWallAhead
    /\ obs.last = "step"
    /\ obs.wall_hit
    /\ positions[Len(positions)][1] < walls[1].position - ball.radius
    /\ ball.position[1] = walls[1].position + ball.radius

-----------------------------------------------------------------------------
(* What the two collision handlers leave alone.                            *)

\* C19: handle_wall_collision leaves the velocity and position on the other
\* in-plane axis and the angular velocity as they were; when
\* |position[axis] - wall| > radius it changes nothing and returns False
C19_WallFrame ==
    (kind = "BallDynamics" /\ obs.last = "handle_wall_collision")
        => /\ ball.velocity[2 - call.axis] = obs.pre.velocity[2 - call.axis]
           /\ ball.position[2 - call.axis] = obs.pre.position[2 - call.axis]
           /\ ball.angular_velocity = obs.pre.angular_velocity
           /\ ball.mass = obs.pre.mass
           /\ ball.radius = obs.pre.radius
           /\ (Abs(obs.pre.position[call.axis + 1] - call.wall_position) > obs.pre.radius)
                  => (ball = obs.pre /\ ret = FALSE)

\* a hit of a spinning ball that also moves along the wall
C19_HitAlongWall ==
    /\ kind = "BallDynamics"
    /\ obs.last = "handle_wall_collision"
    /\ ret = TRUE
    /\ ball.velocity[call.axis + 1] # obs.pre.velocity[call.axis + 1]
    /\ obs.pre.velocity[2 - call.axis] # 0
    /\ obs.pre.angular_velocity # <<0, 0, 0>>

\* the centres of the two balls are no further apart than the sum of the radii
InContact(bs) ==
    /\ bs[1].radius + bs[2].radius >= 0
    /\ SumSq2(<<bs[1].position[1] - bs[2].position[1],
                bs[1].position[2] - bs[2].position[2]>>)
           <= (bs[1].radius + bs[2].radius) * (bs[1].radius + bs[2].radius)

\* the sign of the relative velocity along the line of centres
ApproachRate(bs) ==
    Dot2(<<bs[1].velocity[1] - bs[2].velocity[1], bs[1].velocity[2] - bs[2].velocity[2]>>,
         <<bs[1].position[1] - bs[2].position[1], bs[1].position[2] - bs[2].position[2]>>)

\* C20: handle_ball_collision changes a position or a velocity, or returns
\* True, only when the balls are in contact and approach each other along the
\* line of centres; the angular velocities are as they were in every case
C20_BallFrame ==
    (kind = "BallDynamics" /\ obs.last = "handle_ball_collision")
        => /\ (InContact(obs.pre_balls) /\ ApproachRate(obs.pre_balls) < 0)
                  \/ (balls = obs.pre_balls /\ ret = FALSE)
           /\ \A i \in {1, 2} :
                  /\ balls[i].angular_velocity = obs.pre_balls[i].angular_velocity
                  /\ balls[i].mass = obs.pre_balls[i].mass
                  /\ balls[i].radius = obs.pre_balls[i].radius

\* two overlapping balls that move apart are left alone
C20_SeparatingInContact ==
    /\ kind = "BallDynamics"
    /\ obs.last = "handle_ball_collision"
    /\ InContact(obs.pre_balls)
    /\ ApproachRate(obs.pre_balls) > 0
    /\ balls = obs.pre_balls
    /\ ret = FALSE
    /\ obs.pre_balls[1].angular_velocity # <<0, 0, 0>>

-----------------------------------------------------------------------------
(* Asking a run to stop.                                                   *)

\* while run() is in its loop the caller asks for the run to be cancelled.
\* Neither run() takes a parameter, nor reads an attribute, that carries the
\* request: it is recorded here and read by no other action.
RequestCancel ==
    /\ kind \in {"Simulation", "MultiballSimulation"}
    /\ state = "RUNNING"
    /\ ~obs.cancel
    /\ obs' = [obs EXCEPT !.cancel = TRUE, !.cancel_time = current_time]
    /\ UNCHANGED <<ball, surface, dt, total_time, is_slipping, time_points, positions,
                   velocities, angular_velocities, energies, angular_momenta,
                   is_slipping_history, current_time, walls, restitution, state,
                   results, balls, ball_positions, ball_velocities, call, ret, kind, instances>>

CancelSpec == (BounceInit \/ MultiInit) /\ [][SimNext \/ MultiNext \/ RequestCancel]_vars

\* C16: once cancellation has been requested during a run, at most the step
\* in progress completes, and a run that had more than one step to go stops
\* before the time horizon
C16_CancelStopsRun ==
    (kind \in {"Simulation", "MultiballSimulation"} /\ obs.cancel /\ dt > 0)
        => /\ current_time <= obs.cancel_time + dt
           /\ (state # "RUNNING" /\ obs.cancel_time + dt < total_time)
                  => current_time < total_time

\* a run cancelled before its first step that went on to the horizon
C16_RanOnAfterCancel ==
    /\ kind \in {"Simulation", "MultiballSimulation"}
    /\ obs.cancel
    /\ obs.cancel_time = 0
    /\ dt > 0
    /\ state = "STOPPED_AT_HORIZON"
    /\ obs.steps >= 3
    /\ current_time >= total_time

-----------------------------------------------------------------------------
(* Two integrators side by side.  Every mutable object is kept in a store  *)
(* indexed by its owner: owner i is integrator i (its Ball, its evaluator, *)
(* its lists), owner 0 is what the caller shares between the two (the      *)
(* input arrays, the Surface).  An integrator reads and writes through the *)
(* owner its constructors gave it.                                         *)

EmptyHistory ==
    [time |-> <<>>, position |-> <<>>, velocity |-> <<>>, angular_velocity |-> <<>>,
     energy |-> <<>>, angular_momentum |-> <<>>, is_slipping |-> <<>>]

\* Ball.__init__: np.array(position, dtype=float) makes arrays of the ball's own
ArraysOwner(i) == i

\* lists kept once for the class instead of once for each integrator
ListsOwnerClass(i) == 0

\* Simulation.__init__: self.time_points = [] ... are the integrator's own lists
ListsOwner(i) == i

\* BallDynamics.__init__: self.is_slipping = False is the evaluator's own flag
FlagOwner(i) == i

\* an integrator as a value: ball, flag, record, arguments, clock, position in run()
Integrator(b, flag, h, c) ==
    [ball |-> b, is_slipping |-> flag, h |-> h, dt |-> c.dt, total_time |-> c.total_time,
     walls |-> c.walls, restitution |-> c.restitution, current_time |-> 0,
     state |-> "CONSTRUCTED"]

\* one iteration of the loop of Simulation.run() on the integrator x: h1 is the
\* record with this iteration's sample, b2 the ball after integration and walls
IterationOf(x, s, h1, b2, f) ==
    IF AtRest(b2) /\ RestBreaks(s)
    THEN [x EXCEPT !.ball = RestChecked(b2), !.is_slipping = f,
                   !.h = TrailingSample(h1, x.current_time, RestChecked(b2), f),
                   !.state = "STOPPED_AT_REST"]
    ELSE [x EXCEPT !.ball = RestChecked(b2), !.is_slipping = f, !.h = h1,
                   !.current_time = @ + x.dt]

\* what Simulation.run() does next on the integrator x: it starts, takes one
\* iteration, or leaves its loop
NextOf(x, s) ==
    IF x.state = "CONSTRUCTED" THEN [x EXCEPT !.state = "RUNNING", !.current_time = 0]
    ELSE IF x.state # "RUNNING" THEN x
    ELSE IF x.current_time < x.total_time
    THEN IterationOf(x, s, AppendSample(x.h, x.current_time, x.ball, x.is_slipping),
                     StepBall(x.ball, s, x.dt, x.walls, x.restitution),
                     CHOOSE f \in FlagAfterOdeint(x.ball, s, StateVector(x.ball), x.dt,
                                                  x.is_slipping) : TRUE)
    ELSE [x EXCEPT !.h = TrailingSample(x.h, x.current_time, x.ball, x.is_slipping),
                   !.state = "STOPPED_AT_HORIZON"]

\* the integrator x after k such steps with nothing else going on
RECURSIVE Alone(_, _, _)
Alone(x, s, k) == IF k = 0 THEN x ELSE Alone(NextOf(x, s), s, k - 1)

\* the arrays of a ball
ArraysOf(b) ==
    [position |-> b.position, velocity |-> b.velocity,
     angular_velocity |-> b.angular_velocity]

\* integrator i as it finds itself through the stores
View(i) ==
    [ball |-> Ball(instances.sims[i].mass, instances.sims[i].radius,
                   instances.arrays[instances.sims[i].arrays].position,
                   instances.arrays[instances.sims[i].arrays].velocity,
                   instances.arrays[instances.sims[i].arrays].angular_velocity),
     is_slipping |-> instances.flags[FlagOwner(i)],
     h |-> instances.lists[ListsOwner(i)],
     dt |-> instances.sims[i].dt,
     total_time |-> instances.sims[i].total_time,
     walls |-> instances.sims[i].walls,
     restitution |-> instances.sims[i].restitution,
     current_time |-> instances.sims[i].current_time,
     state |-> instances.sims[i].state]

PairConfigs ==
    [mass : {1, 2}, radius : {10}, dt : 1..MaxDt, total_time : {MaxTime - 1},
     walls : {<<[position |-> 25, axis |-> 0]>>}, restitution : {10}]

\* what integrator i keeps in its own attributes
SimOf(c, b) ==
    [mass |-> c.mass, radius |-> c.radius, arrays |-> 0, dt |-> c.dt,
     total_time |-> c.total_time, walls |-> c.walls, restitution |-> c.restitution,
     current_time |-> 0, state |-> "CONSTRUCTED", steps |-> 0,
     start |-> Integrator(b, FALSE, EmptyHistory, c)]

\* two Balls from the same input arrays, one Surface, two Simulations
PairInit ==
    \E c1 \in PairConfigs, c2 \in PairConfigs,
       v \in {<<13, 0>>, <<0, 0>>}, f \in {1, 7}, a \in {0, 3000000} :
        /\ kind = "Simulations"
        /\ surface = Surface(f, a)
        /\ instances =
               [sims |-> <<[SimOf(c1, Ball(c1.mass, c1.radius, <<0, 0>>, v, <<0, 0, 0>>))
                               EXCEPT !.arrays = ArraysOwner(1)],
                           [SimOf(c2, Ball(c2.mass, c2.radius, <<0, 0>>, v, <<0, 0, 0>>))
                               EXCEPT !.arrays = ArraysOwner(2)]>>,
                arrays |-> [o \in 0..2 |-> [position |-> <<0, 0>>, velocity |-> v,
                                            angular_velocity |-> <<0, 0, 0>>]],
                lists |-> [o \in 0..2 |-> EmptyHistory],
                flags |-> [o \in 0..2 |-> FALSE],
                last |-> 0,
                switches |-> 0]
        /\ ball = NoBall
        /\ dt = 1
        /\ total_time = 0
        /\ is_slipping = FALSE
        /\ time_points = <<>>
        /\ positions = <<>>
        /\ velocities = <<>>
        /\ angular_velocities = <<>>
        /\ energies = <<>>
        /\ angular_momenta = <<>>
        /\ is_slipping_history = <<>>
        /\ current_time = 0
        /\ walls = <<>>
        /\ restitution = EDen
        /\ state = "CONSTRUCTED"
        /\ results = NoResults
        /\ NoMulti
        /\ call = [op |-> "none"]
        /\ ret = FALSE
        /\ obs = NoObs

\* the stores after integrator i, found as x, has become y: set_state_from_vector
\* binds new arrays to the ball, the appends go to the lists, the flag to its owner
Stored(i, x, y) ==
    [sims |-> [instances.sims EXCEPT
                 ![i] = [@ EXCEPT !.arrays = IF x.state = "RUNNING"
                                                /\ x.current_time < x.total_time
                                             THEN i ELSE @,
                                  !.current_time = y.current_time,
                                  !.state = y.state,
                                  !.steps = @ + 1]],
     arrays |-> IF x.state = "RUNNING" /\ x.current_time < x.total_time
                THEN [instances.arrays EXCEPT ![i] = ArraysOf(y.ball)]
                ELSE instances.arrays,
     lists |-> [instances.lists EXCEPT ![ListsOwner(i)] = y.h],
     flags |-> [instances.flags EXCEPT ![FlagOwner(i)] = y.is_slipping],
     last |-> i,
     switches |-> IF instances.last \notin {0, i} /\ instances.switches < 3
                  THEN instances.switches + 1 ELSE instances.switches]

\* integrator i takes its next step while the other one waits
PairStep(i) ==
    /\ kind = "Simulations"
    /\ instances.sims[i].state \notin {"STOPPED_AT_REST", "STOPPED_AT_HORIZON"}
    /\ instances' = Stored(i, View(i), NextOf(View(i), surface))
    /\ UNCHANGED <<ball, surface, dt, total_time, is_slipping, time_points, positions,
                   velocities, angular_velocities, energies, angular_momenta,
                   is_slipping_history, current_time, walls, restitution, state,
                   results, balls, ball_positions, ball_velocities, call, ret, kind, obs>>

PairNext == \E i \in {1, 2} : PairStep(i)

\* two integrators that share a Surface, their steps interleaved in any order
PairSpec == PairInit /\ [][PairNext]_vars

\* C17: whatever the interleaving, each of two integrators over distinct Balls
\* (built from the same input arrays, on one Surface) is, after k of its steps,
\* where it is after k steps alone: ball, flag, record, clock
C17_AsWhenAlone ==
    kind = "Simulations"
        => \A i \in {1, 2} :
               View(i) = Alone(instances.sims[i].start, surface, instances.sims[i].steps)

\* both runs have returned after their steps alternated, one of them slipping
\* on the incline, and the two records differ
C17_InterleavedRunsDone ==
    /\ kind = "Simulations"
    /\ \A i \in {1, 2} : instances.sims[i].state = "STOPPED_AT_HORIZON"
    /\ instances.switches >= 3
    /\ instances.flags[1]
    /\ instances.sims[1].dt # instances.sims[2].dt
    /\ Len(instances.lists[1].time) > Len(instances.lists[2].time)
    /\ Len(instances.lists[2].time) >= 2

-----------------------------------------------------------------------------
(* The positional correction of handle_ball_collision.                     *)

\* ten times the centre distance of two balls
Distance10(bs) ==
    Norm10(<<bs[1].position[1] - bs[2].position[1],
             bs[1].position[2] - bs[2].position[2]>>)

\* C21: a resolved collision moves the two balls by opposite displacements
\* along the centre line, the centre distance afterwards is the sum of the
\* radii (to within the rounding of the two displacements), the balls no
\* longer approach each other (to within the rounding of the two velocity
\* updates), and where the updates are exact (equal masses meeting along x)
\* the same test made again on the balls as they are resolves nothing
C21_OverlapSplit ==
    (kind = "BallDynamics" /\ obs.last = "handle_ball_collision" /\ ret = TRUE)
        => /\ \A k \in {1, 2} :
                  balls[1].position[k] - obs.pre_balls[1].position[k]
                      = obs.pre_balls[2].position[k] - balls[2].position[k]
           /\ Abs(Distance10(balls) - 10 * (balls[1].radius + balls[2].radius)) <= 15
           /\ 100 * ApproachRate(balls) >= -15 * Distance10(balls)
           /\ (/\ obs.pre_balls[1].mass = obs.pre_balls[2].mass
               /\ obs.pre_balls[1].position[2] = obs.pre_balls[2].position[2])
                  => ~handle_ball_collision(balls[1], balls[2], call.restitution).hit

\* two overlapping balls met obliquely and were moved apart
C21_OverlapRemoved ==
    /\ kind = "BallDynamics"
    /\ obs.last = "handle_ball_collision"
    /\ ret = TRUE
    /\ obs.pre_balls[1].position[2] # obs.pre_balls[2].position[2]
    /\ Distance10(obs.pre_balls) + 30
           < 10 * (obs.pre_balls[1].radius + obs.pre_balls[2].radius)
    /\ balls[1].position # obs.pre_balls[1].position

-----------------------------------------------------------------------------
(* The pair loop of a multi-ball step.                                     *)

\* the pair p comes before the pair q in index order, i outer and j inner
PairBefore(p, q) == p[1] < q[1] \/ (p[1] = q[1] /\ p[2] < q[2])

\* the three balls bs after the pairs (1, 2), (1, 3), (2, 3) have been tested
\* one after the other, each on what the one before left
ThreeResolved(bs, r12, e) ==
    <<handle_ball_collision(r12.ball, bs[3], e).ball,
      handle_ball_collision(r12.other,
                            handle_ball_collision(r12.ball, bs[3], e).other, e).ball,
      handle_ball_collision(r12.other,
                            handle_ball_collision(r12.ball, bs[3], e).other, e).other>>

\* C22: in every step of a multi-ball run handle_ball_collision is called on
\* the balls as integration and walls left them, once for every pair (i, j)
\* with i < j and for no other, in index order, and each call works on what
\* the calls before it left
C22_PairsInOrder ==
    (kind = "MultiballSimulation" /\ obs.last = "step")
        => /\ Len(obs.integrated) = Len(balls)
           /\ 2 * Len(obs.pairs) = Len(balls) * (Len(balls) - 1)
           /\ \A k \in 1..Len(obs.pairs) :
                  /\ obs.pairs[k][1] \in 1..Len(balls)
                  /\ obs.pairs[k][2] \in 1..Len(balls)
                  /\ obs.pairs[k][1] < obs.pairs[k][2]
           /\ \A k \in 1..(Len(obs.pairs) - 1) : PairBefore(obs.pairs[k], obs.pairs[k + 1])
           /\ Len(balls) = 2
                  => balls = <<handle_ball_collision(obs.integrated[1], obs.integrated[2],
                                                     restitution).ball,
                               handle_ball_collision(obs.integrated[1], obs.integrated[2],
                                                     restitution).other>>
           /\ Len(balls) = 3
                  => balls = ThreeResolved(obs.integrated,
                                           handle_ball_collision(obs.integrated[1],
                                                                 obs.integrated[2],
                                                                 restitution),
                                           restitution)

\* three balls in a row: the middle one was struck by the first and, with the
\* velocity that gave it, struck the third in the same step
C22_MiddleBallStruckTwice ==
    /\ kind = "MultiballSimulation"
    /\ obs.last = "step"
    /\ Len(balls) = 3
    /\ obs.hits = 2
    /\ obs.pairs = <<<<1, 2>>, <<1, 3>>, <<2, 3>>>>
    /\ restitution = EDen
    /\ obs.integrated[2].velocity = <<0, 0>>
    /\ balls[3].velocity # handle_ball_collision(obs.integrated[2], obs.integrated[3],
                                                 restitution).other.velocity

-----------------------------------------------------------------------------
(* The regime flag of a recorded sample.                                   *)

\* C23: every sample of the record of a validly configured integrator carries
\* the regime flag that a derivative evaluation at that sample's state leaves
C23_FlagOfSample ==
    (kind = "Simulation" /\ ~InvalidConfiguration)
        => \A i \in 1..Len(is_slipping_history) :
               is_slipping_history[i]
                   = DerivativeAt(ball, surface, velocities[i]).is_slipping

\* a run on a slipping incline has returned and its first sample says rolling
C23_StaleFirstFlag ==
    /\ kind = "Simulation"
    /\ ~InvalidConfiguration
    /\ state = "STOPPED_AT_HORIZON"
    /\ obs.runs = 1
    /\ Len(is_slipping_history) >= 3
    /\ DerivativeAt(ball, surface, velocities[1]).is_slipping
    /\ is_slipping_history[1] = FALSE
    /\ \A i \in 2..Len(is_slipping_history) : is_slipping_history[i]

-----------------------------------------------------------------------------
(* Properties of the derivative.                                           *)

\* C24: for a ball of positive mass and degenerate radius a derivative
\* evaluation returns zero angular acceleration in every branch
C24_DegenerateRadius ==
    (/\ kind = "BallDynamics"
     /\ obs.last = "equations_of_motion"
     /\ ball.mass > 0
     /\ ball.radius <= RadiusEps)
        => <<ret[5], ret[6], ret[7]>> = <<0, 0, 0>>

\* the slipping branch divided the zero torque by the zero moment of inertia
C24_UndefinedAngularAcceleration ==
    /\ kind = "BallDynamics"
    /\ obs.last = "equations_of_motion"
    /\ ball.mass > 0
    /\ ball.radius = 0
    /\ is_slipping
    /\ <<ret[5], ret[6], ret[7]>> = <<NaN, NaN, NaN>>

\* balls that roll without slipping from the start: no walls, the spin matched
\* to the velocity
RollingConfigs ==
    [mass : {1, 2},
     radius : {1, 10},
     velocity : {<<0, 0>>, <<20, 0>>, <<0, -20>>},
     spin : {"matched"},
     friction_coeff : {1, 7},
     angle_deg : {0, 3000000, 6000000},
     dt : 1..MaxDt,
     total_time : {MaxTime - 1, MaxTime},
     walls : {<<>>},
     restitution : {10}]

RollingInit == \E c \in RollingConfigs : SimConstructed(c)

\* runs of rolling balls, and direct calls of equations_of_motion
RollingSpec == (RollingInit \/ EomInit) /\ [][SimNext \/ EomCall \/ CallAgain]_vars

\* v_contact of check_slipping_condition: velocity - cross(omega, (0, 0, -radius))
ContactVelocity(r, v, w) == <<v[1] + r * w[2], v[2] - r * w[1]>>

\* C25: in the rolling regime with radius > 1e-10 a derivative leaves the
\* contact-point velocity as it is, ax + r*d(wy)/dt = 0 and ay - r*d(wx)/dt = 0
\* (to within the rounding of the division by r), and in a run without walls
\* that starts with zero contact-point velocity every sample has vx = -r*wy
\* and vy = r*wx (to within that rounding for each tick elapsed)
C25_ContactPointAtRest ==
    /\ (/\ kind = "BallDynamics"
        /\ obs.last = "equations_of_motion"
        /\ ~is_slipping
        /\ ball.radius > RadiusEps)
           => \A k \in {1, 2} :
                  2 * Abs(ContactVelocity(ball.radius, <<ret[3], ret[4]>>,
                                          <<ret[5], ret[6], ret[7]>>)[k]) <= ball.radius
    /\ (/\ kind = "Simulation"
        /\ obs.runs = 1
        /\ walls = <<>>
        /\ ball.radius > RadiusEps
        /\ ~(OnIncline(surface) /\ SlipsOnIncline(ball, surface))
        /\ Len(velocities) >= 1
        /\ ContactVelocity(ball.radius, velocities[1], angular_velocities[1]) = <<0, 0>>)
           => \A i \in 1..Len(velocities) : \A k \in {1, 2} :
                  2 * Abs(ContactVelocity(ball.radius, velocities[i],
                                          angular_velocities[i])[k])
                      <= ball.radius * time_points[i]

\* a ball of radius 1 released from rest on the rolling incline has gathered
\* speed and spin, the contact point still at rest
C25_RolledDownIncline ==
    /\ kind = "Simulation"
    /\ obs.runs = 1
    /\ state = "STOPPED_AT_HORIZON"
    /\ OnIncline(surface)
    /\ ~SlipsOnIncline(ball, surface)
    /\ ball.radius = 1
    /\ velocities[1] = <<0, 0>>
    /\ angular_velocities[1] = <<0, 0, 0>>
    /\ Len(velocities) >= 3
    /\ velocities[Len(velocities)][1] > 0
    /\ angular_velocities[Len(velocities)][2] < 0
    /\ ContactVelocity(1, velocities[Len(velocities)],
                       angular_velocities[Len(velocities)]) = <<0, 0>>

\* C26: on a slipping incline with theta > 0 a ball of positive mass at rest is
\* accelerated along (cos(theta), -sin(theta)): a derivative evaluation at rest
\* returns ax > 0 and ay < 0, and the second sample of a run from rest has
\* vx > 0 and vy < 0; the kinetic friction is opposite to the velocity
C26_SlidesDownslope ==
    /\ (/\ kind = "BallDynamics"
        /\ obs.last = "equations_of_motion"
        /\ ball.mass > 0
        /\ surface.angle > AngleEps
        /\ is_slipping)
           => /\ ball.velocity = <<0, 0>> => (ret[3] > 0 /\ ret[4] < 0)
              /\ Dot2(SlippingFriction(ball, surface, ball.velocity), ball.velocity) <= 0
    /\ (/\ kind = "Simulation"
        /\ ~InvalidConfiguration
        /\ obs.runs = 1
        /\ surface.angle > AngleEps
        /\ SlipsOnIncline(ball, surface)
        /\ Len(velocities) >= 2
        /\ velocities[1] = <<0, 0>>)
           => (velocities[2][1] > 0 /\ velocities[2][2] < 0)

\* a ball released from rest on a slipping incline has moved towards -x
C26_SlidUpslopeInX ==
    /\ kind = "Simulation"
    /\ ~InvalidConfiguration
    /\ obs.runs = 1
    /\ state = "STOPPED_AT_HORIZON"
    /\ surface.angle > AngleEps
    /\ SlipsOnIncline(ball, surface)
    /\ surface.friction_coeff > 0
    /\ velocities[1] = <<0, 0>>
    /\ positions[1] = <<0, 0>>
    /\ \A i \in 2..Len(velocities) : velocities[i][1] < 0 /\ velocities[i][2] < 0
    /\ ball.position[1] < 0

\* C27: the flag a derivative evaluation leaves does not depend on the state
\* vector it is given, and within a run with dt # 0 every sample after the
\* first carries the same flag, the one the integrator holds
C27_RegimeFixed ==
    /\ (kind = "BallDynamics" /\ obs.last = "equations_of_motion")
           => \A w \in {<<0, 0>>, <<30, 0>>, <<-44, 25>>, <<0, -1>>} :
                  is_slipping = DerivativeAt(ball, surface, w).is_slipping
    /\ (kind = "Simulation" /\ dt # 0 /\ obs.steps >= 1)
           => \A i \in (obs.run_start + 2)..Len(is_slipping_history) :
                  is_slipping_history[i] = is_slipping

\* the flag stayed set while the ball gathered speed on a slipping incline
C27_SameFlagAsSpeedGrows ==
    /\ kind = "Simulation"
    /\ obs.runs = 1
    /\ state = "STOPPED_AT_HORIZON"
    /\ Len(velocities) >= 4
    /\ velocities[2] # velocities[3]
    /\ velocities[3] # velocities[4]
    /\ \A i \in 2..Len(is_slipping_history) : is_slipping_history[i]

-----------------------------------------------------------------------------
(* The last sample of a record.                                            *)

\* C28: after run() has returned, at the horizon or at rest, the last sample
\* of the record is the ball as it is: position, velocity, angular velocity
C28_LastSampleIsFinalState ==
    (kind = "Simulation" /\ obs.runs = 1 /\ Stopped /\ obs.last \in {"step", "exit"})
        => /\ positions[Len(positions)] = ball.position
           /\ velocities[Len(velocities)] = ball.velocity
           /\ angular_velocities[Len(angular_velocities)] = ball.angular_velocity

\* a ball stopped dead by a wall of restitution 0 on a frictionless flat
\* surface: run() has returned at rest and the last sample still moves
C28_LastSampleStillMoving ==
    /\ kind = "Simulation"
    /\ obs.runs = 1
    /\ state = "STOPPED_AT_REST"
    /\ obs.last = "step"
    /\ obs.wall_hit
    /\ restitution = 0
    /\ surface.friction_coeff = 0
    /\ ball.velocity = <<0, 0>>
    /\ velocities[Len(velocities)][1] > 0
    /\ positions[Len(positions)][1] < ball.position[1]
    /\ time_points[Len(time_points)] = current_time

-----------------------------------------------------------------------------
(* Running an integrator again.                                            *)

\* the first n samples of the record
RecordPrefix(n) ==
    [time |-> SubSeq(time_points, 1, n), position |-> SubSeq(positions, 1, n),
     velocity |-> SubSeq(velocities, 1, n),
     angular_velocity |-> SubSeq(angular_velocities, 1, n),
     energy |-> SubSeq(energies, 1, n),
     angular_momentum |-> SubSeq(angular_momenta, 1, n),
     is_slipping |-> SubSeq(is_slipping_history, 1, n)]

\* C29: for a validly configured integrator, during and after a second run()
\* the record as it was when run() was called is a prefix of the record; once
\* that run has returned, samples have been appended, the first of them at
\* time 0 and at the state the ball had when run() was called; and the times
\* recorded by the first run start at 0 and strictly increase
C29_SecondRunAppends ==
    (kind = "Simulation" /\ ~InvalidConfiguration /\ obs.runs >= 1)
        => /\ Len(time_points) >= obs.run_start
           /\ RecordPrefix(obs.run_start) = obs.prefix
           /\ Stopped
                  => /\ Len(time_points) > obs.run_start
                     /\ time_points[obs.run_start + 1] = 0
                     /\ positions[obs.run_start + 1] = obs.start_ball.position
                     /\ velocities[obs.run_start + 1] = obs.start_ball.velocity
                     /\ angular_velocities[obs.run_start + 1]
                            = obs.start_ball.angular_velocity
           /\ obs.runs = 1
                  => /\ Len(time_points) >= 1 => time_points[1] = 0
                     /\ \A i \in 1..(Len(time_points) - 1) :
                            time_points[i] < time_points[i + 1]

\* a second run to the horizon, begun on a ball that was moving, has returned
C29_RanTwice ==
    /\ kind = "Simulation"
    /\ ~InvalidConfiguration
    /\ obs.runs = 2
    /\ state = "STOPPED_AT_HORIZON"
    /\ obs.run_start >= 3
    /\ Len(time_points) >= obs.run_start + 3
    /\ obs.start_ball.velocity # <<0, 0>>
    /\ obs.start_ball.position # <<0, 0>>
    /\ time_points[obs.run_start] > 0
    /\ time_points[obs.run_start + 1] = 0

-----------------------------------------------------------------------------
(* The energy check on a ball released from rest.                          *)

\* C30: check_energy_conservation(tolerance) returns True whenever fewer than
\* two samples are recorded or the first recorded kinetic energy is 0
C30_RestAlwaysPasses ==
    (/\ kind = "Simulation"
     /\ obs.last = "check_energy"
     /\ (Len(energies) < 2 \/ energies[1] = 0))
        => ret = TRUE

\* a ball released from rest has rolled down the incline, its total energy far
\* from the initial one, and the check at the tightest tolerance passed
C30_PassedFromRest ==
    /\ kind = "Simulation"
    /\ obs.last = "check_energy"
    /\ call.tolerance = 5
    /\ ret = TRUE
    /\ ~is_slipping
    /\ Len(energies) >= 3
    /\ energies[1] = 0
    /\ energies[Len(energies)] > 0
    /\ TotalEnergy10(Len(energies)) # TotalEnergy10(1)

====
